---------------------------- MODULE Spec2Model ----------------------------
(***************************************************************************)
(* Streaming step / result pipeline of geppetto: the EchoStep, the OpenAI  *)
(* chat Step, the completion Step and the pure-function SimpleStep, each   *)
(* with the result stream it produces and the events it publishes.         *)
(*                                                                         *)
(* One behaviour follows one step object from its construction on; Init    *)
(* chooses which kind of step was constructed (stepKind).                  *)
(***************************************************************************)
EXTENDS Integers, Sequences, FiniteSets, TLC

\* ------------------------------------------------------------------ bounds
\* longest message text (in characters) / most fragments a transport delivers
MaxLen == 2
\* most calls of EchoStep.Start that get past the input check
MaxRuns == 1
\* largest integer handed to a pure-function step
MaxInt == 2

\* ------------------------------------------------------------ value domains
Alphabet == {"a", "b"}

\* all texts of at most MaxLen characters, a text being a sequence of characters
Texts == UNION {[1..n -> Alphabet] : n \in 0..MaxLen}

\* an earlier message of the conversation (only the last message is echoed)
SystemMsg == <<"a">>

\* a string is the sequence of its bytes; "a" and "b" are characters of one
\* byte, and MultiByteText is the text of one character of two bytes (the
\* UTF-8 encoding of U+00E9)
MultiByteText == <<"c3", "a9">>

\* the message texts the echo step is handed: the prefixes of "abab...", so
\* that every character differs from its neighbours, and MultiByteText
\* (a message text is never cut inside a character)
EchoTexts ==
    {[i \in 1..n |-> IF i % 2 = 1 THEN "a" ELSE "b"] : n \in 0..MaxLen}
        \cup {MultiByteText}

\* the number of bytes of the character of s that starts after off bytes, as
\* the range loop over a string decodes it
RuneLen(s, off) ==
    IF s[off + 1] = "c3" /\ off + 2 <= Len(s) /\ s[off + 2] = "a9" THEN 2 ELSE 1

\* the conversations handed to EchoStep.Start
Inputs == {<< >>} \cup {<<t>> : t \in EchoTexts} \cup {<<SystemMsg, t>> : t \in EchoTexts}

Runs == 1..MaxRuns

\* helpers.Result[T]: a value, a partial value or an error
NewValueResult(v) == [kind |-> "Value", payload |-> v]
NewPartialResult(v) == [kind |-> "Partial", payload |-> v]
NewErrorResult(e) == [kind |-> "Error", payload |-> e]

IsTerminal(r) == r.kind \in {"Value", "Error"}

\* context.Canceled, the error of a cancelled context
Canceled == "context canceled"

\* the text s[1..n]
Prefix(s, n) == SubSeq(s, 1, n)

\* the number of results of s whose kind is in kinds
NumResults(s, kinds) == Cardinality({i \in DOMAIN s : s[i].kind \in kinds})

\* the number of events of s of the given type
NumEvents(s, type) == Cardinality({i \in DOMAIN s : s[i].type = type})

\* the concatenation of the payloads of the results of s that are of kind k
RECURSIVE ConcatOf(_, _)
ConcatOf(s, k) ==
    IF s = << >> THEN << >>
    ELSE (IF Head(s).kind = k THEN Head(s).payload ELSE << >>) \o ConcatOf(Tail(s), k)

\* the last element of a non-empty sequence
Last(s) == s[Len(s)]

\* the concatenation of the texts of a sequence of texts
RECURSIVE Flatten(_)
Flatten(ts) == IF ts = << >> THEN << >> ELSE Head(ts) \o Flatten(Tail(ts))

VARIABLES
    stepKind,     \* which step object this behaviour follows
    \* ---- EchoStep
    cancel,       \* EchoStep.cancel: 0 is nil, r the cancel function of run r
    nStarts,      \* number of Start calls that created a run
    echoPc,       \* per run: the position of the goroutine of eg.Go
    msgText,      \* per run: msg.Text, the text of the last message
    idx,          \* per run: number of bytes of msg.Text the loop has passed
    ctxDone,      \* per run: the run's ctx is cancelled
    echoC,        \* per run: the contents of channel c (capacity 1)
    echoClosed,   \* per run: number of close(c) executed
    echoStream,   \* per run: every Result sent on c, in order
    echoEvents,   \* per run: every event handed to PublishBlind, in order
    startErr,     \* the error the last Start call returned ("" is nil)
    interruptedAt,\* per run: where the goroutine was, and how many characters
                  \* it had passed, when ctx was cancelled (Nil: not cancelled)
    interruptedIdle, \* Interrupt has been called while e.cancel was nil
    subs,         \* e.subscriptionManager: the kinds of subscriber registered
    missed,       \* the subscribers that did not take an event published to them
    handed,       \* per subscriber: the last event handed to it (Nil: none)
    \* ---- completion.Step
    settings,     \* Step.settings
    state,        \* Step.state
    compPc,       \* the position of Run
    compPending,  \* the Result Run is about to send on s.output
    output,       \* s.output: every Result received from it, in order
    outputCloses, \* number of close(s.output) executed
    compRecvd,    \* the fragments stream.Recv has returned, in order
    compResp,     \* what the non-streaming request returned
    compPanic,    \* the run-time panic that ended Run ("" is none)
    \* ---- openai.Step (chat)
    chatSettings, \* Step.Settings (Chat.Stream)
    chatPc,       \* the position of Start, then of its goroutine
    chatCtxDone,  \* the ctx given to Start is cancelled
    chatPending,  \* the Result the goroutine is about to send on c
    chatC,        \* channel c: every Result received from it, in order
    chatCloses,   \* number of close(c) executed
    chatRecvd,    \* the fragments stream.Recv has returned, in order
    chatResp,     \* what the non-streaming request returned
    chatStartErr, \* the error Start returned ("" is nil)
    chatPanic,    \* the run-time panic that ended Start ("" is none)
    chatCancelledAt, \* where Start or its goroutine was when ctx was cancelled
    chatConsumerGone, \* the consumer of c has stopped receiving
    \* ---- SimpleStep
    simpleFn,     \* the function the step wraps
    simpleState,  \* the step's state
    simplePc,     \* the position of Run
    simpleArg,    \* the input Run was called with
    simpleExt,    \* what the function received from outside while it ran
    simpleOut,    \* the output channel: every Result received from it
    simpleCloses, \* number of times the output channel was closed
    \* ---- Bind
    bindFn,       \* the function of the step that is bound
    bindUp,       \* the upstream stream: the Results not drained yet
    bindIn,       \* the Results drained from the upstream stream, in order
    bindPc,       \* the position of the task that drains the upstream stream
    bindArg,      \* the value the step was started with and has not answered
    bindCalls,    \* every value the step was started with, in order
    bindDown,     \* the downstream stream: every Result put on it, in order
    bindCloses,   \* number of times the downstream stream was closed
    bindCtxDone,  \* the ctx given to Bind is cancelled
    \* ---- PipeStep
    pipeKind,     \* which pair of steps NewPipeStep was given
    pipePc,       \* the position of Run
    pipeArg,      \* the input Run was called with
    pipeC,        \* channel c of the test (capacity 1): what it holds
    pipeD,        \* channel d of the test (capacity 1): what it holds
    pipeS1,       \* every Result step1 produced, in order
    pipeDrained,  \* how many Results of step1 the pipe has drained
    pipeS2Calls,  \* every value step2 was run with, in order
    pipeOut,      \* the pipe's output: every Result put on it, in order
    pipeCloses,   \* number of times the pipe's output was closed
    \* ---- MultiCompletionStep
    mcPc,         \* the position of MultiCompletionStep.Run
    prompts,      \* len(prompts)
    mcStream,     \* mc.settings.Stream, shared by the member steps
    memberPc,     \* per member: the position of completionSteps[j].Run
    chans,        \* per member: every Result sent on its output, in order
    fwd,          \* per member: the Result MergeChannels holds for it
    mergeClosed,  \* mergeChannel is closed
    collected,    \* every Result the collecting goroutine received, in order
    results,      \* the slice results
    collPc,       \* the position of the collecting goroutine
    ctx2Done,     \* ctx2 is cancelled
    mcErr,        \* the error Run returned ("" is nil or not returned)
    mcOutput,     \* mc.output: every Result sent on it, in order
    mcCloses,     \* number of close(mc.output) executed
    mcState,      \* mc.state
    \* ---- RunIntoWriter
    riwPc,        \* the position of RunIntoWriter
    riwCtxDone,   \* the ctx given to RunIntoWriter is cancelled
    riwStream,    \* what the stream m yields before it is closed
    riwPos,       \* number of Results received from m.GetChannel()
    riwSawClose,  \* the receive that reports the closed channel was made
    riwWritten,   \* every v handed to a w.Write that did not fail, in order
    accumulate,   \* the local accumulate
    riwErr,       \* the error RunIntoWriter returned ("" is nil)
    \* ---- TranscribeCommand
    trPc,         \* the position of TranscribeCommand.Run
    trFiles,      \* len(files)
    workers,      \* the "workers" parameter
    trStarted,    \* number of files a goroutine was started for
    trRunning,    \* number of TranscribeFile goroutines that have not returned
    trOut,        \* len(out): transcriptions sent and not yet received
    trCollected,  \* number of transcriptions Run has received from out
    trErr,        \* the error Run returned ("" is nil)
    \* ---- StandardStepFactory
    sfPc,         \* the position of NewStepFromLayers
    sfCall,       \* what the call met: the error of UpdateFromParsedLayers,
                  \* settings_.Chat, and what the two engine tests answer
    sfStep,       \* the step NewStepFromLayers returned (Nil: nil)
    sfErr         \* the error NewStepFromLayers returned ("" is nil)

echoVars == <<cancel, nStarts, echoPc, msgText, idx, ctxDone, echoC,
              echoClosed, echoStream, echoEvents, startErr, interruptedAt,
              interruptedIdle, subs, missed, handed>>

compVars == <<settings, state, compPc, compPending, output, outputCloses,
              compRecvd, compResp, compPanic>>

chatVars == <<chatSettings, chatPc, chatCtxDone, chatPending, chatC, chatCloses,
              chatRecvd, chatResp, chatStartErr, chatPanic, chatCancelledAt,
              chatConsumerGone>>

simpleVars == <<simpleFn, simpleState, simplePc, simpleArg, simpleExt,
                simpleOut, simpleCloses>>

bindVars == <<bindFn, bindUp, bindIn, bindPc, bindArg, bindCalls, bindDown,
              bindCloses, bindCtxDone>>

pipeVars == <<pipeKind, pipePc, pipeArg, pipeC, pipeD, pipeS1, pipeDrained,
              pipeS2Calls, pipeOut, pipeCloses>>

mcVars == <<mcPc, prompts, mcStream, memberPc, chans, fwd, mergeClosed, collected,
            results, collPc, ctx2Done, mcErr, mcOutput, mcCloses, mcState>>

riwVars == <<riwPc, riwCtxDone, riwStream, riwPos, riwSawClose, riwWritten,
             accumulate, riwErr>>

trVars == <<trPc, trFiles, workers, trStarted, trRunning, trOut, trCollected, trErr>>

sfVars == <<sfPc, sfCall, sfStep, sfErr>>

vars == <<stepKind, echoVars, compVars, chatVars, simpleVars, bindVars, pipeVars,
          mcVars, riwVars, trVars, sfVars>>

\* the step object an action belongs to is the one constructed; the other
\* kinds of step do not exist and nothing of them changes
EchoFrame ==
    stepKind = "EchoStep" /\ UNCHANGED <<stepKind, compVars, chatVars, simpleVars, bindVars, pipeVars, mcVars, riwVars, trVars, sfVars>>
CompFrame ==
    stepKind = "completion.Step"
    /\ UNCHANGED <<stepKind, echoVars, chatVars, simpleVars, bindVars, pipeVars, mcVars, riwVars, trVars, sfVars>>
ChatFrame ==
    stepKind = "openai.Step"
    /\ UNCHANGED <<stepKind, echoVars, compVars, simpleVars, bindVars, pipeVars, mcVars, riwVars, trVars, sfVars>>
SimpleFrame ==
    stepKind = "SimpleStep"
    /\ UNCHANGED <<stepKind, echoVars, compVars, chatVars, bindVars, pipeVars, mcVars, riwVars, trVars, sfVars>>
BindFrame ==
    stepKind = "Bind"
    /\ UNCHANGED <<stepKind, echoVars, compVars, chatVars, simpleVars, pipeVars, mcVars, riwVars, trVars, sfVars>>
PipeFrame ==
    stepKind = "PipeStep"
    /\ UNCHANGED <<stepKind, echoVars, compVars, chatVars, simpleVars, bindVars, mcVars, riwVars, trVars, sfVars>>
McFrame ==
    stepKind = "MultiCompletionStep"
    /\ UNCHANGED <<stepKind, echoVars, compVars, chatVars, simpleVars, bindVars, pipeVars,
                   riwVars, trVars, sfVars>>
RiwFrame ==
    stepKind = "RunIntoWriter"
    /\ UNCHANGED <<stepKind, echoVars, compVars, chatVars, simpleVars, bindVars, pipeVars,
                   mcVars, trVars, sfVars>>
TrFrame ==
    stepKind = "TranscribeCommand"
    /\ UNCHANGED <<stepKind, echoVars, compVars, chatVars, simpleVars, bindVars, pipeVars,
                   mcVars, riwVars, sfVars>>
SfFrame ==
    stepKind = "StandardStepFactory"
    /\ UNCHANGED <<stepKind, echoVars, compVars, chatVars, simpleVars, bindVars, pipeVars,
                   mcVars, riwVars, trVars>>

\* ------------------------------------------------------------------ EchoStep

EventPartialCompletion(delta, completion) ==
    [type |-> "partial", delta |-> delta, completion |-> completion]
EventText(type, text) == [type |-> type, text |-> text]

\* the subscribers a step is given here: one whose delivery fails and one
\* that never consumes what it is sent (a subscriber that takes every event
\* is to the step as no subscriber)
SubscriberKinds == {"failing", "stuck"}

\* PublishBlind: the event is handed to every subscriber and the outcome of
\* the delivery is ignored; these subscribers do not take it
NotTaking(ss) == ss \cap {"failing", "stuck"}

\* PublishBlind: every registered subscriber is handed the event
HandedTo(ss, ev) == [k \in SubscriberKinds |-> IF k \in ss THEN <<ev>> ELSE handed[k]]

\* NewEchoStep: no cancel function, no run
EchoInit ==
    /\ cancel = 0
    /\ nStarts = 0
    /\ echoPc = [r \in Runs |-> "none"]
    /\ msgText = [r \in Runs |-> << >>]
    /\ idx = [r \in Runs |-> 0]
    /\ ctxDone = [r \in Runs |-> FALSE]
    /\ echoC = [r \in Runs |-> << >>]
    /\ echoClosed = [r \in Runs |-> 0]
    /\ echoStream = [r \in Runs |-> << >>]
    /\ echoEvents = [r \in Runs |-> << >>]
    /\ startErr = ""
    /\ interruptedAt = [r \in Runs |-> << >>]
    /\ interruptedIdle = FALSE
    /\ subs = {}
    /\ missed = {}
    /\ handed = [k \in SubscriberKinds |-> << >>]

\* EchoStartNoInput with the cancel function cleared before the input check
EchoStartNoInput_ClearsCancel ==
    /\ EchoFrame
    /\ startErr' = "no input"
    /\ cancel' = 0
    /\ UNCHANGED <<nStarts, echoPc, msgText, idx, ctxDone,
                   echoC, echoClosed, echoStream, echoEvents, interruptedAt, interruptedIdle,
                   subs, missed, handed>>

\* Start with an empty input: the error is returned before anything is set up
EchoStartNoInput ==
    /\ EchoFrame
    /\ startErr' = "no input"
    /\ UNCHANGED <<cancel, nStarts, echoPc, msgText, idx, ctxDone,
                   echoC, echoClosed, echoStream, echoEvents, interruptedAt, interruptedIdle,
                   subs, missed, handed>>

\* Start: a new context, cancel function, channel and goroutine (at most
\* MaxRuns runs are followed, and a run after the first only on a step that
\* has no subscriber and was not interrupted before its first Start)
EchoStart(input) ==
    /\ EchoFrame
    /\ Len(input) > 0
    /\ nStarts < MaxRuns
    /\ nStarts >= 1 => (subs = {} /\ ~interruptedIdle)
    /\ LET r == nStarts + 1 IN
        /\ nStarts' = r
        /\ cancel' = r
        /\ msgText' = [msgText EXCEPT ![r] = input[Len(input)]]
        /\ echoPc' = [echoPc EXCEPT ![r] = "select"]
    /\ startErr' = ""
    /\ UNCHANGED <<idx, ctxDone, echoC, echoClosed, echoStream, echoEvents, interruptedAt, interruptedIdle,
                   subs, missed, handed>>

\* Interrupt that, with no cancel function to call, keeps the request for
\* the run the next Start makes
EchoInterrupt_Pending ==
    /\ EchoFrame
    /\ ctxDone' = IF cancel /= 0 THEN [ctxDone EXCEPT ![cancel] = TRUE]
                  ELSE [ctxDone EXCEPT ![1] = TRUE]
    /\ interruptedAt' = IF cancel /= 0 /\ ~ctxDone[cancel]
                        THEN [interruptedAt EXCEPT
                                ![cancel] = <<[pc |-> echoPc[cancel], idx |-> idx[cancel]]>>]
                        ELSE interruptedAt
    /\ interruptedIdle' = (interruptedIdle \/ cancel = 0)
    /\ UNCHANGED <<cancel, nStarts, echoPc, msgText, idx, echoC,
                   echoClosed, echoStream, echoEvents, startErr, subs, missed, handed>>

\* Interrupt: calls e.cancel when it is set
EchoInterrupt ==
    /\ EchoFrame
    /\ interruptedIdle' = (interruptedIdle \/ cancel = 0)
    /\ ctxDone' = IF cancel /= 0 THEN [ctxDone EXCEPT ![cancel] = TRUE] ELSE ctxDone
    /\ interruptedAt' = IF cancel /= 0 /\ ~ctxDone[cancel]
                        THEN [interruptedAt EXCEPT
                                ![cancel] = <<[pc |-> echoPc[cancel], idx |-> idx[cancel]]>>]
                        ELSE interruptedAt
    /\ UNCHANGED <<cancel, nStarts, echoPc, msgText, idx, echoC,
                   echoClosed, echoStream, echoEvents, startErr, subs, missed, handed>>

\* the loop is entered only when the text has a character left
EchoLoopExit(r) ==
    /\ EchoFrame
    /\ echoPc[r] = "select"
    /\ idx[r] >= Len(msgText[r])
    /\ echoPc' = [echoPc EXCEPT ![r] = "final"]
    /\ UNCHANGED <<cancel, nStarts, msgText, idx, ctxDone, echoC,
                   echoClosed, echoStream, echoEvents, startErr, interruptedAt, interruptedIdle,
                   subs, missed, handed>>

\* EchoSelectDone with a break in the place of the return: the loop is left
\* and the code after it runs
EchoSelectDone_Break(r) ==
    /\ EchoFrame
    /\ echoPc[r] = "select"
    /\ idx[r] < Len(msgText[r])
    /\ ctxDone[r]
    /\ echoEvents' = [echoEvents EXCEPT
                        ![r] = Append(@, EventText("interrupt", msgText[r]))]
    /\ echoPc' = [echoPc EXCEPT ![r] = "final"]
    /\ missed' = missed \cup NotTaking(subs)
    /\ handed' = HandedTo(subs, Last(echoEvents'[r]))
    /\ UNCHANGED <<cancel, nStarts, msgText, idx, ctxDone, echoC,
                   echoClosed, echoStream, startErr, interruptedAt, interruptedIdle, subs>>

\* select, case <-ctx.Done(): publish the interrupt event
EchoSelectDone(r) ==
    /\ EchoFrame
    /\ echoPc[r] = "select"
    /\ idx[r] < Len(msgText[r])
    /\ ctxDone[r]
    /\ echoEvents' = [echoEvents EXCEPT
                        ![r] = Append(@, EventText("interrupt", msgText[r]))]
    /\ echoPc' = [echoPc EXCEPT ![r] = "sendErr"]
    /\ missed' = missed \cup NotTaking(subs)
    /\ handed' = HandedTo(subs, Last(echoEvents'[r]))
    /\ UNCHANGED <<cancel, nStarts, msgText, idx, ctxDone, echoC,
                   echoClosed, echoStream, startErr, interruptedAt, interruptedIdle, subs>>

\* select, case <-time.After(e.TimePerCharacter): publish the partial event
\* with Delta string(c_) and Completion msg.Text[:idx+1], idx being the byte
\* offset at which the character c_ starts.
\* The timer may have fired when ctx is cancelled too; select then takes
\* either ready case.
EchoSelectTimer(r) ==
    /\ EchoFrame
    /\ echoPc[r] = "select"
    /\ idx[r] < Len(msgText[r])
    /\ echoEvents' = [echoEvents EXCEPT
                        ![r] = Append(@, EventPartialCompletion(
                                   SubSeq(msgText[r], idx[r] + 1,
                                          idx[r] + RuneLen(msgText[r], idx[r])),
                                   Prefix(msgText[r], idx[r] + 1)))]
    /\ idx' = [idx EXCEPT ![r] = @ + RuneLen(msgText[r], idx[r])]
    /\ echoPc' = [echoPc EXCEPT ![r] = "select"]
    /\ missed' = missed \cup NotTaking(subs)
    /\ handed' = HandedTo(subs, Last(echoEvents'[r]))
    /\ UNCHANGED <<cancel, nStarts, msgText, ctxDone, echoC,
                   echoClosed, echoStream, startErr, interruptedAt, interruptedIdle, subs>>

\* c <- helpers.NewErrorResult[string](ctx.Err()); return ctx.Err()
EchoSendErr(r) ==
    /\ EchoFrame
    /\ echoPc[r] = "sendErr"
    /\ Len(echoC[r]) < 1
    /\ echoC' = [echoC EXCEPT ![r] = Append(@, NewErrorResult(Canceled))]
    /\ echoStream' = [echoStream EXCEPT ![r] = Append(@, NewErrorResult(Canceled))]
    /\ echoPc' = [echoPc EXCEPT ![r] = "close"]
    /\ UNCHANGED <<cancel, nStarts, msgText, idx, ctxDone,
                   echoClosed, echoEvents, startErr, interruptedAt, interruptedIdle,
                   subs, missed, handed>>

\* EchoPublishFinal with the PublishBlind call left out
EchoPublishFinal_Silent(r) ==
    /\ EchoFrame
    /\ echoPc[r] = "final"
    /\ echoPc' = [echoPc EXCEPT ![r] = "sendValue"]
    /\ UNCHANGED <<cancel, nStarts, msgText, idx, ctxDone, echoC,
                   echoClosed, echoStream, echoEvents, startErr, interruptedAt, interruptedIdle,
                   subs, missed, handed>>

\* EchoPublishFinal with a publication that waits until every subscriber has
\* consumed the event
EchoPublishFinal_WaitsForSubscribers(r) ==
    /\ EchoFrame
    /\ echoPc[r] = "final"
    /\ "stuck" \notin subs
    /\ echoEvents' = [echoEvents EXCEPT
                        ![r] = Append(@, EventText("final", msgText[r]))]
    /\ missed' = missed \cup NotTaking(subs)
    /\ handed' = HandedTo(subs, Last(echoEvents'[r]))
    /\ echoPc' = [echoPc EXCEPT ![r] = "sendValue"]
    /\ UNCHANGED <<cancel, nStarts, msgText, idx, ctxDone, echoC,
                   echoClosed, echoStream, startErr, interruptedAt, interruptedIdle, subs>>

\* after the loop: publish the final event
EchoPublishFinal(r) ==
    /\ EchoFrame
    /\ echoPc[r] = "final"
    /\ echoEvents' = [echoEvents EXCEPT
                        ![r] = Append(@, EventText("final", msgText[r]))]
    /\ echoPc' = [echoPc EXCEPT ![r] = "sendValue"]
    /\ missed' = missed \cup NotTaking(subs)
    /\ handed' = HandedTo(subs, Last(echoEvents'[r]))
    /\ UNCHANGED <<cancel, nStarts, msgText, idx, ctxDone, echoC,
                   echoClosed, echoStream, startErr, interruptedAt, interruptedIdle, subs>>

\* EchoSendValue on a channel made without a buffer: the send waits for a
\* consumer that is receiving, and none is
EchoSendValue_NoBuffer(r) ==
    /\ EchoFrame
    /\ echoPc[r] = "sendValue"
    /\ Len(echoC[r]) < 0
    /\ echoC' = [echoC EXCEPT ![r] = Append(@, NewValueResult(msgText[r]))]
    /\ echoStream' = [echoStream EXCEPT ![r] = Append(@, NewValueResult(msgText[r]))]
    /\ echoPc' = [echoPc EXCEPT ![r] = "close"]
    /\ UNCHANGED <<cancel, nStarts, msgText, idx, ctxDone,
                   echoClosed, echoEvents, startErr, interruptedAt, interruptedIdle,
                   subs, missed, handed>>

\* c <- helpers.NewValueResult[string](msg.Text); return nil
EchoSendValue(r) ==
    /\ EchoFrame
    /\ echoPc[r] = "sendValue"
    /\ Len(echoC[r]) < 1
    /\ echoC' = [echoC EXCEPT ![r] = Append(@, NewValueResult(msgText[r]))]
    /\ echoStream' = [echoStream EXCEPT ![r] = Append(@, NewValueResult(msgText[r]))]
    /\ echoPc' = [echoPc EXCEPT ![r] = "close"]
    /\ UNCHANGED <<cancel, nStarts, msgText, idx, ctxDone,
                   echoClosed, echoEvents, startErr, interruptedAt, interruptedIdle,
                   subs, missed, handed>>

\* defer close(c); the errgroup cancels its context when the goroutine is done
EchoClose(r) ==
    /\ EchoFrame
    /\ echoPc[r] = "close"
    /\ echoClosed' = [echoClosed EXCEPT ![r] = @ + 1]
    /\ echoPc' = [echoPc EXCEPT ![r] = "done"]
    /\ UNCHANGED <<cancel, nStarts, msgText, idx, ctxDone, echoC,
                   echoStream, echoEvents, startErr, interruptedAt, interruptedIdle,
                   subs, missed, handed>>

\* the consumer of the returned StepResult receives from c
EchoRecv(r) ==
    /\ EchoFrame
    /\ echoC[r] /= << >>
    /\ echoC' = [echoC EXCEPT ![r] = Tail(@)]
    /\ UNCHANGED <<cancel, nStarts, echoPc, msgText, idx, ctxDone,
                   echoClosed, echoStream, echoEvents, startErr, interruptedAt, interruptedIdle,
                   subs, missed, handed>>

\* EchoPublish with a registration that replaces the registry
EchoPublish_Replaces(k) ==
    /\ EchoFrame
    /\ k \notin subs
    /\ nStarts <= 1
    /\ subs' = {k}
    /\ UNCHANGED <<cancel, nStarts, echoPc, msgText, idx, ctxDone, echoC,
                   echoClosed, echoStream, echoEvents, startErr, interruptedAt, interruptedIdle,
                   missed, handed>>

\* Publish: e.subscriptionManager.AddSubscription(topic, publisher), before
\* a run, between runs or while a run publishes (registrations are followed
\* until a second run is started)
EchoPublish(k) ==
    /\ EchoFrame
    /\ k \notin subs
    /\ nStarts <= 1
    /\ subs' = subs \cup {k}
    /\ UNCHANGED <<cancel, nStarts, echoPc, msgText, idx, ctxDone, echoC,
                   echoClosed, echoStream, echoEvents, startErr, interruptedAt, interruptedIdle,
                   missed, handed>>

\* the steps of the goroutine Start hands to eg.Go for run r
EchoGoroutine(r) ==
    \/ EchoLoopExit(r)
    \/ EchoSelectDone(r)
    \/ EchoSelectTimer(r)
    \/ EchoSendErr(r)
    \/ EchoPublishFinal(r)
    \/ EchoSendValue(r)
    \/ EchoClose(r)

NextEcho ==
    \/ EchoStartNoInput
    \/ \E input \in Inputs : EchoStart(input)
    \/ EchoInterrupt
    \/ \E r \in Runs : EchoLoopExit(r)
    \/ \E r \in Runs : EchoSelectDone(r)
    \/ \E r \in Runs : EchoSelectTimer(r)
    \/ \E r \in Runs : EchoSendErr(r)
    \/ \E r \in Runs : EchoPublishFinal(r)
    \/ \E r \in Runs : EchoSendValue(r)
    \/ \E r \in Runs : EchoClose(r)
    \/ \E r \in Runs : EchoRecv(r)
    \/ \E k \in SubscriberKinds : EchoPublish(k)

\* ------------------------------------------------------- completion.Step
\* A pointer is a sequence of at most one element: << >> is nil.
Nil == << >>
Ptr(S) == {Nil} \cup {<<x>> : x \in S}

ClientSettingsSet == [APIKey : Ptr({"key"}), DefaultEngine : Ptr({"text-davinci-003"})]

StepSettingsSet ==
    [ClientSettings : Ptr(ClientSettingsSet),
     Engine : Ptr({"gpt-3.5-turbo", "text-davinci-003"}),
     N : Ptr({1, 2}),
     Stream : BOOLEAN]

\* what a streamed response carries: one character of text
Fragments == {<<ch>> : ch \in Alphabet}

\* what the non-streaming request returns: an error, or a response with no
\* choice or with the completion as its first choice
Responses == {[err |-> TRUE, choices |-> << >>]}
             \cup {[err |-> FALSE, choices |-> ch] : ch \in Ptr(Texts)}

ErrMissingClientSettings == "missing client settings"
ErrMissingClientAPIKey == "missing client API key"
ErrNoEngine == "no engine specified"
ErrNNotSupported == "N > 1 is not supported yet"
ErrNoChoices == "no choices returned from OpenAI"
ErrTransport == "transport error"

\* NewStep
CompInit ==
    /\ settings \in StepSettingsSet
    /\ state = "StepNotStarted"
    /\ compPc = "new"
    /\ compPending = Nil
    /\ output = << >>
    /\ outputCloses = 0
    /\ compRecvd = << >>
    /\ compResp = Nil
    /\ compPanic = ""

\* no completion.Step was constructed
CompNone ==
    /\ settings = Nil
    /\ state = "StepNotStarted"
    /\ compPc = "none"
    /\ compPending = Nil
    /\ output = << >>
    /\ outputCloses = 0
    /\ compRecvd = << >>
    /\ compResp = Nil
    /\ compPanic = ""

\* Run is entered: s.state = StepRunning. Nothing keeps a caller from running
\* a step that has run before.
CompRun ==
    /\ CompFrame
    /\ compPc \in {"new", "returned"}
    /\ state' = "StepRunning"
    /\ compPc' = "config"
    /\ compRecvd' = << >>
    /\ compResp' = Nil
    /\ UNCHANGED <<settings, compPending, output, outputCloses, compPanic>>

\* the engine Run resolves: Engine, else the client's DefaultEngine
EngineOf(st) ==
    IF st.Engine /= Nil THEN st.Engine
    ELSE st.ClientSettings[1].DefaultEngine

\* strings.HasPrefix(engine, "gpt-3.5-turbo")
IsChatEngine(engine) == engine = <<"gpt-3.5-turbo">>

\* the error of the configuration checks of Run ("" when they pass)
ConfigError(st) ==
    IF st.ClientSettings = Nil THEN ErrMissingClientSettings
    ELSE IF st.ClientSettings[1].APIKey = Nil THEN ErrMissingClientAPIKey
    ELSE IF st.Engine = Nil /\ st.ClientSettings[1].DefaultEngine = Nil THEN ErrNoEngine
    ELSE ""

\* the checks of Run before the request is built
CompConfig ==
    /\ CompFrame
    /\ compPc = "config"
    /\ IF ConfigError(settings) /= ""
       THEN /\ compPending' = <<NewErrorResult(ConfigError(settings))>>
            /\ compPc' = "sendLast"
       ELSE /\ compPending' = Nil
            /\ compPc' = "request"
    /\ UNCHANGED <<settings, state, output, outputCloses, compRecvd, compResp, compPanic>>

\* RunCompletion / RunChatCompletion: N is neither nil nor 1
CompRejectN ==
    /\ CompFrame
    /\ compPc = "request"
    /\ settings.N /= Nil /\ settings.N[1] /= 1
    /\ compPending' = <<NewErrorResult(ErrNNotSupported)>>
    /\ compPc' = "sendLast"
    /\ UNCHANGED <<settings, state, output, outputCloses, compRecvd, compResp, compPanic>>

\* stream: CreateCompletionStream / CreateChatCompletionStream
CompOpenStream(ok) ==
    /\ CompFrame
    /\ compPc = "request"
    /\ ~(settings.N /= Nil /\ settings.N[1] /= 1)
    /\ settings.Stream
    /\ IF ok
       THEN /\ compPending' = Nil
            /\ compPc' = "recv"
       ELSE /\ compPending' = <<NewErrorResult(ErrTransport)>>
            /\ compPc' = "sendLast"
    /\ UNCHANGED <<settings, state, output, outputCloses, compRecvd, compResp, compPanic>>

\* stream.Recv returns a response: the partial result is to be sent
CompRecvFragment(f) ==
    /\ CompFrame
    /\ compPc = "recv"
    /\ Len(compRecvd) < MaxLen
    /\ compRecvd' = Append(compRecvd, f)
    /\ compPending' = <<NewPartialResult(f)>>
    /\ compPc' = "sendPartial"
    /\ UNCHANGED <<settings, state, output, outputCloses, compResp, compPanic>>

\* CompRecvEnd with the final Value carrying the text received so far
CompRecvEnd_FullText(eof) ==
    /\ CompFrame
    /\ compPc = "recv"
    /\ state' = "StepFinished"
    /\ compPending' = IF eof THEN <<NewValueResult(Flatten(compRecvd))>>
                             ELSE <<NewErrorResult(ErrTransport)>>
    /\ compPc' = "sendLast"
    /\ UNCHANGED <<settings, output, outputCloses, compRecvd, compResp, compPanic>>

\* stream.Recv returns io.EOF (eof) or another error
CompRecvEnd(eof) ==
    /\ CompFrame
    /\ compPc = "recv"
    /\ state' = "StepFinished"
    /\ compPending' = IF eof THEN <<NewValueResult(<< >>)>>
                             ELSE <<NewErrorResult(ErrTransport)>>
    /\ compPc' = "sendLast"
    /\ UNCHANGED <<settings, output, outputCloses, compRecvd, compResp, compPanic>>

\* not stream, RunCompletion: CreateCompletion and what follows it
CompRequest(resp) ==
    /\ CompFrame
    /\ compPc = "request"
    /\ ~(settings.N /= Nil /\ settings.N[1] /= 1)
    /\ ~settings.Stream
    /\ ~IsChatEngine(EngineOf(settings))
    /\ compResp' = <<resp>>
    /\ IF resp.err
       THEN /\ compPending' = <<NewErrorResult(ErrTransport)>>
            /\ state' = state
       ELSE /\ state' = "StepFinished"
            /\ compPending' = IF resp.choices = Nil
                              THEN <<NewErrorResult(ErrNoChoices)>>
                              ELSE <<NewValueResult(resp.choices[1])>>
    /\ compPc' = "sendLast"
    /\ UNCHANGED <<settings, output, outputCloses, compRecvd, compPanic>>

\* not stream, RunChatCompletion: CreateChatCompletion and what follows it;
\* resp.Choices[0] of a response without choices is an index out of range
CompChatRequest(resp) ==
    /\ CompFrame
    /\ compPc = "request"
    /\ ~(settings.N /= Nil /\ settings.N[1] /= 1)
    /\ ~settings.Stream
    /\ IsChatEngine(EngineOf(settings))
    /\ compResp' = <<resp>>
    /\ state' = "StepFinished"
    /\ IF resp.err
       THEN /\ compPending' = <<NewErrorResult(ErrTransport)>>
            /\ compPc' = "sendLast"
            /\ compPanic' = compPanic
       ELSE IF resp.choices = Nil
       THEN /\ compPending' = Nil
            /\ compPc' = "defer"
            /\ compPanic' = "index out of range"
       ELSE /\ compPending' = <<NewValueResult(resp.choices[1])>>
            /\ compPc' = "sendLast"
            /\ compPanic' = compPanic
    /\ UNCHANGED <<settings, output, outputCloses, compRecvd>>

\* CompSend with the return after the send of a terminal Result left out: the
\* receive loop goes on
CompSend_NoReturn ==
    /\ CompFrame
    /\ compPc \in {"sendPartial", "sendLast"}
    /\ IF outputCloses > 0
       THEN /\ compPanic' = "send on closed channel"
            /\ compPc' = "defer"
            /\ output' = output
       ELSE /\ output' = Append(output, compPending[1])
            /\ compPc' = "recv"
            /\ compPanic' = compPanic
    /\ compPending' = Nil
    /\ UNCHANGED <<settings, state, outputCloses, compRecvd, compResp>>

\* s.output <- result: the channel has no buffer, so the send is the receive of
\* the consumer; a send on a closed channel panics
CompSend ==
    /\ CompFrame
    /\ compPc \in {"sendPartial", "sendLast"}
    /\ IF outputCloses > 0
       THEN /\ compPanic' = "send on closed channel"
            /\ compPc' = "defer"
            /\ output' = output
       ELSE /\ output' = Append(output, compPending[1])
            /\ compPc' = IF compPc = "sendPartial" THEN "recv" ELSE "defer"
            /\ compPanic' = compPanic
    /\ compPending' = Nil
    /\ UNCHANGED <<settings, state, outputCloses, compRecvd, compResp>>

\* the deferred function of Run, run on return and on panic:
\* s.state = StepClosed; close(s.output). Closing a closed channel panics.
CompDefer ==
    /\ CompFrame
    /\ compPc = "defer"
    /\ state' = "StepClosed"
    /\ outputCloses' = outputCloses + 1
    /\ compPanic' = IF outputCloses > 0 THEN "close of closed channel" ELSE compPanic
    /\ compPc' = IF compPanic' /= "" THEN "crashed" ELSE "returned"
    /\ UNCHANGED <<settings, compPending, output, compRecvd, compResp>>

NextComp ==
    \/ CompRun
    \/ CompConfig
    \/ CompRejectN
    \/ \E ok \in BOOLEAN : CompOpenStream(ok)
    \/ \E f \in Fragments : CompRecvFragment(f)
    \/ \E eof \in BOOLEAN : CompRecvEnd(eof)
    \/ \E resp \in Responses : CompRequest(resp)
    \/ \E resp \in Responses : CompChatRequest(resp)
    \/ CompSend
    \/ CompDefer

\* ------------------------------------------------------------ openai.Step
\* steps.Reject / steps.Resolve: a stream that holds one result and is closed
Reject(err) == <<NewErrorResult(err)>>
Resolve(v) == <<NewValueResult(v)>>

ChatInit ==
    /\ chatSettings \in [Stream : BOOLEAN]
    /\ chatPc = "new"
    /\ chatCtxDone = FALSE
    /\ chatPending = Nil
    /\ chatC = << >>
    /\ chatCloses = 0
    /\ chatRecvd = << >>
    /\ chatResp = Nil
    /\ chatStartErr = ""
    /\ chatPanic = ""
    /\ chatCancelledAt = ""
    /\ chatConsumerGone = FALSE

\* no openai.Step was constructed
ChatNone ==
    /\ chatSettings = Nil
    /\ chatPc = "none"
    /\ chatCtxDone = FALSE
    /\ chatPending = Nil
    /\ chatC = << >>
    /\ chatCloses = 0
    /\ chatRecvd = << >>
    /\ chatResp = Nil
    /\ chatStartErr = ""
    /\ chatPanic = ""
    /\ chatCancelledAt = ""
    /\ chatConsumerGone = FALSE

\* SetStreaming, before Start
ChatSetStreaming(b) ==
    /\ ChatFrame
    /\ chatPc = "new"
    /\ chatSettings' = [chatSettings EXCEPT !.Stream = b]
    /\ UNCHANGED <<chatPc, chatCtxDone, chatPending, chatC, chatCloses, chatRecvd,
                   chatResp, chatStartErr, chatPanic, chatCancelledAt, chatConsumerGone>>

\* the caller cancels the ctx it gave, or will give, to Start
ChatCancel ==
    /\ ChatFrame
    /\ ~chatCtxDone
    /\ chatCtxDone' = TRUE
    /\ chatCancelledAt' = chatPc
    /\ UNCHANGED <<chatSettings, chatPc, chatPending, chatC, chatCloses, chatRecvd,
                   chatResp, chatStartErr, chatPanic, chatConsumerGone>>

\* Start: makeCompletionRequest fails, the error is returned and no stream
ChatStartFail ==
    /\ ChatFrame
    /\ chatPc = "new"
    /\ chatStartErr' = "invalid request"
    /\ chatPc' = "failed"
    /\ UNCHANGED <<chatSettings, chatCtxDone, chatPending, chatC, chatCloses,
                   chatRecvd, chatResp, chatPanic, chatCancelledAt, chatConsumerGone>>

\* Start, stream: CreateChatCompletionStream, then the goroutine is started
ChatStartStream(ok) ==
    /\ ChatFrame
    /\ chatPc = "new"
    /\ chatSettings.Stream
    /\ IF ok
       THEN /\ chatPc' = "select"
            /\ UNCHANGED <<chatC, chatCloses, chatConsumerGone>>
       ELSE /\ chatC' = Reject(ErrTransport)
            /\ chatCloses' = 1
            /\ chatPc' = "done"
    /\ UNCHANGED <<chatSettings, chatCtxDone, chatPending, chatRecvd, chatResp,
                   chatStartErr, chatPanic, chatCancelledAt, chatConsumerGone>>

\* Start, not stream: CreateChatCompletion; resp.Choices[0] of a response
\* without choices is an index out of range
ChatStartSync(resp) ==
    /\ ChatFrame
    /\ chatPc = "new"
    /\ ~chatSettings.Stream
    /\ chatResp' = <<resp>>
    /\ IF resp.err
       THEN /\ chatC' = Reject(ErrTransport)
            /\ chatCloses' = 1
            /\ chatPc' = "done"
            /\ chatPanic' = chatPanic
       ELSE IF resp.choices = Nil
       THEN /\ chatPanic' = "index out of range"
            /\ chatPc' = "crashed"
            /\ UNCHANGED <<chatC, chatCloses, chatConsumerGone>>
       ELSE /\ chatC' = Resolve(resp.choices[1])
            /\ chatCloses' = 1
            /\ chatPc' = "done"
            /\ chatPanic' = chatPanic
    /\ UNCHANGED <<chatSettings, chatCtxDone, chatPending, chatRecvd, chatStartErr, chatCancelledAt, chatConsumerGone>>

\* select, case <-ctx.Done(): return
ChatSelectDone ==
    /\ ChatFrame
    /\ chatPc = "select"
    /\ chatCtxDone
    /\ chatPc' = "close"
    /\ UNCHANGED <<chatSettings, chatCtxDone, chatPending, chatC, chatCloses,
                   chatRecvd, chatResp, chatStartErr, chatPanic, chatCancelledAt, chatConsumerGone>>

\* select, default (ctx is not cancelled): stream.Recv is called
ChatSelectDefault ==
    /\ ChatFrame
    /\ chatPc = "select"
    /\ ~chatCtxDone
    /\ chatPc' = "recv"
    /\ UNCHANGED <<chatSettings, chatCtxDone, chatPending, chatC, chatCloses,
                   chatRecvd, chatResp, chatStartErr, chatPanic, chatCancelledAt, chatConsumerGone>>

\* stream.Recv returns a response: the partial result is to be sent
ChatRecvFragment(f) ==
    /\ ChatFrame
    /\ chatPc = "recv"
    /\ Len(chatRecvd) < MaxLen
    /\ chatRecvd' = Append(chatRecvd, f)
    /\ chatPending' = <<NewPartialResult(f)>>
    /\ chatPc' = "sendPartial"
    /\ UNCHANGED <<chatSettings, chatCtxDone, chatC, chatCloses, chatResp,
                   chatStartErr, chatPanic, chatCancelledAt, chatConsumerGone>>

\* stream.Recv returns io.EOF
ChatRecvEOF ==
    /\ ChatFrame
    /\ chatPc = "recv"
    /\ chatPending' = <<NewValueResult(<< >>)>>
    /\ chatPc' = "sendLast"
    /\ UNCHANGED <<chatSettings, chatCtxDone, chatC, chatCloses, chatRecvd,
                   chatResp, chatStartErr, chatPanic, chatCancelledAt, chatConsumerGone>>

\* stream.Recv returns another error: of the transport, or ctx.Err() when the
\* ctx was cancelled while Recv waited
ChatRecvErr(err) ==
    /\ ChatFrame
    /\ chatPc = "recv"
    /\ err = Canceled => chatCtxDone
    /\ chatPending' = <<NewErrorResult(err)>>
    /\ chatPc' = "sendLast"
    /\ UNCHANGED <<chatSettings, chatCtxDone, chatC, chatCloses, chatRecvd,
                   chatResp, chatStartErr, chatPanic, chatCancelledAt, chatConsumerGone>>

\* c <- result: the channel has no buffer, so the send is the receive of the
\* consumer, and waits for it
ChatSend ==
    /\ ChatFrame
    /\ chatPc \in {"sendPartial", "sendLast"}
    /\ ~chatConsumerGone
    /\ chatC' = Append(chatC, chatPending[1])
    /\ chatPending' = Nil
    /\ chatPc' = IF chatPc = "sendPartial" THEN "select" ELSE "close"
    /\ UNCHANGED <<chatSettings, chatCtxDone, chatCloses, chatRecvd, chatResp,
                   chatStartErr, chatPanic, chatCancelledAt, chatConsumerGone>>

\* defer stream.Close(); defer close(c)
ChatClose ==
    /\ ChatFrame
    /\ chatPc = "close"
    /\ chatCloses' = chatCloses + 1
    /\ chatPc' = "done"
    /\ UNCHANGED <<chatSettings, chatCtxDone, chatPending, chatC, chatRecvd,
                   chatResp, chatStartErr, chatPanic, chatCancelledAt, chatConsumerGone>>

\* the consumer of the stream returns before the stream is closed and
\* receives no more (RunIntoWriter on a cancelled ctx or a failed write)
ChatConsumerStops ==
    /\ ChatFrame
    /\ chatPc \notin {"new", "failed", "crashed"}
    /\ ~chatConsumerGone
    /\ chatConsumerGone' = TRUE
    /\ UNCHANGED <<chatSettings, chatPc, chatCtxDone, chatPending, chatC, chatCloses,
                   chatRecvd, chatResp, chatStartErr, chatPanic, chatCancelledAt>>

\* the steps of the goroutine Start starts for a streamed completion
ChatGoroutine ==
    \/ ChatSelectDone
    \/ ChatSelectDefault
    \/ \E f \in Fragments : ChatRecvFragment(f)
    \/ ChatRecvEOF
    \/ \E err \in {ErrTransport, Canceled} : ChatRecvErr(err)
    \/ ChatSend
    \/ ChatClose

NextChat ==
    \/ \E b \in BOOLEAN : ChatSetStreaming(b)
    \/ ChatCancel
    \/ ChatStartFail
    \/ \E ok \in BOOLEAN : ChatStartStream(ok)
    \/ \E resp \in Responses : ChatStartSync(resp)
    \/ ChatSelectDone
    \/ ChatSelectDefault
    \/ \E f \in Fragments : ChatRecvFragment(f)
    \/ ChatRecvEOF
    \/ \E err \in {ErrTransport, Canceled} : ChatRecvErr(err)
    \/ ChatSend
    \/ ChatClose
    \/ ChatConsumerStops

\* -------------------------------------------------------------- SimpleStep
\* the functions wrapped: a + 1, and <-c + a, which waits for a value from
\* outside before it returns
SimpleFns == {"inc", "recvAdd"}

Apply(fn, a, ext) == IF fn = "inc" THEN a + 1 ELSE ext[1] + a

\* NewSimpleStep(f)
SimpleInit ==
    /\ simpleFn \in SimpleFns
    /\ simpleState = "SimpleStepNotStarted"
    /\ simplePc = "new"
    /\ simpleArg = 0
    /\ simpleExt = Nil
    /\ simpleOut = << >>
    /\ simpleCloses = 0

\* no SimpleStep was constructed
SimpleNone ==
    /\ simpleFn = "inc"
    /\ simpleState = "SimpleStepNotStarted"
    /\ simplePc = "none"
    /\ simpleArg = 0
    /\ simpleExt = Nil
    /\ simpleOut = << >>
    /\ simpleCloses = 0

\* Run(ctx, a) is entered
SimpleRun(a) ==
    /\ SimpleFrame
    /\ simplePc = "new"
    /\ simpleState' = "SimpleStepRunning"
    /\ simpleArg' = a
    /\ simplePc' = "call"
    /\ UNCHANGED <<simpleFn, simpleExt, simpleOut, simpleCloses>>

\* the function, blocked on its channel, receives v
SimpleUnblock(v) ==
    /\ SimpleFrame
    /\ simplePc = "call"
    /\ simpleFn = "recvAdd"
    /\ simpleExt = Nil
    /\ simpleExt' = <<v>>
    /\ UNCHANGED <<simpleFn, simpleState, simplePc, simpleArg, simpleOut, simpleCloses>>

\* the result sent on the output channel: the value of the function
SimpleResult == NewValueResult(Apply(simpleFn, simpleArg, simpleExt))

\* SimpleSend with the input sent in the place of the function's value
SimpleSend_Input ==
    /\ SimpleFrame
    /\ simplePc = "call"
    /\ simpleFn = "recvAdd" => simpleExt /= Nil
    /\ simpleOut' = Append(simpleOut, NewValueResult(simpleArg))
    /\ simpleState' = "SimpleStepFinished"
    /\ simplePc' = "close"
    /\ UNCHANGED <<simpleFn, simpleArg, simpleExt, simpleCloses>>

\* the function returns and its value is sent on the output channel (no
\* buffer: the send is the receive of the consumer)
SimpleSend ==
    /\ SimpleFrame
    /\ simplePc = "call"
    /\ simpleFn = "recvAdd" => simpleExt /= Nil
    /\ simpleOut' = Append(simpleOut, SimpleResult)
    /\ simpleState' = "SimpleStepFinished"
    /\ simplePc' = "close"
    /\ UNCHANGED <<simpleFn, simpleArg, simpleExt, simpleCloses>>

\* the output channel is closed and Run returns nil
SimpleClose ==
    /\ SimpleFrame
    /\ simplePc = "close"
    /\ simpleCloses' = simpleCloses + 1
    /\ simpleState' = "SimpleStepClosed"
    /\ simplePc' = "done"
    /\ UNCHANGED <<simpleFn, simpleArg, simpleExt, simpleOut>>

NextSimple ==
    \/ \E a \in 0..MaxInt : SimpleRun(a)
    \/ \E v \in 0..MaxInt : SimpleUnblock(v)
    \/ SimpleSend
    \/ SimpleClose

\* -------------------------------------------------------------------- Bind
\* Bind(ctx, upstream, step) with a pure-function step: x + 1 on integers, or
\* strings.ToUpper on texts

BindFns == {"inc", "ToUpper"}

\* unicode.ToUpper of one character
Upper(ch) == CASE ch = "a" -> "A" [] ch = "b" -> "B" [] OTHER -> ch

\* strings.ToUpper
ToUpper(t) == [i \in DOMAIN t |-> Upper(t[i])]

\* the function of the step
ApplyBind(fn, v) == IF fn = "inc" THEN v + 1 ELSE ToUpper(v)

\* the values an upstream stream carries: integers for x + 1; for ToUpper
\* what a streaming chat step sends, a fragment or the empty text
BindValues(fn) == IF fn = "inc" THEN 0..MaxInt ELSE {<< >>} \cup Fragments

BindItems(fn) ==
    {NewValueResult(v) : v \in BindValues(fn)}
    \cup {NewPartialResult(v) : v \in BindValues(fn)}
    \cup {NewErrorResult(ErrTransport)}

\* the upstream streams: at most MaxLen + 1 Results, then closed
Upstreams(fn) == UNION {[1..n -> BindItems(fn)] : n \in 0..(MaxLen + 1)}

\* Bind returns the downstream stream and starts the task that drains upstream
BindInit ==
    /\ bindFn \in BindFns
    /\ bindUp \in Upstreams(bindFn)
    /\ bindIn = << >>
    /\ bindPc = "drain"
    /\ bindArg = Nil
    /\ bindCalls = << >>
    /\ bindDown = << >>
    /\ bindCloses = 0
    /\ bindCtxDone = FALSE

\* Bind was not called
BindNone ==
    /\ bindFn = "inc"
    /\ bindUp = << >>
    /\ bindIn = << >>
    /\ bindPc = "none"
    /\ bindArg = Nil
    /\ bindCalls = << >>
    /\ bindDown = << >>
    /\ bindCloses = 0
    /\ bindCtxDone = FALSE

\* the caller cancels the ctx it gave to Bind
BindCancel ==
    /\ BindFrame
    /\ ~bindCtxDone
    /\ bindCtxDone' = TRUE
    /\ UNCHANGED <<bindFn, bindUp, bindIn, bindPc, bindArg, bindCalls, bindDown, bindCloses>>

\* a terminal Value is drained: the step is started with it
BindDrainValue ==
    /\ BindFrame
    /\ bindPc = "drain"
    /\ bindUp /= << >>
    /\ Head(bindUp).kind = "Value"
    /\ bindIn' = Append(bindIn, Head(bindUp))
    /\ bindUp' = Tail(bindUp)
    /\ bindArg' = <<Head(bindUp).payload>>
    /\ bindCalls' = Append(bindCalls, Head(bindUp).payload)
    /\ bindPc' = "step"
    /\ UNCHANGED <<bindFn, bindDown, bindCloses, bindCtxDone>>

\* BindForward with the value forwarded as the step received it
BindForward_Identity ==
    /\ BindFrame
    /\ bindPc = "step"
    /\ bindDown' = Append(bindDown, NewValueResult(bindArg[1]))
    /\ bindArg' = Nil
    /\ bindPc' = "drain"
    /\ UNCHANGED <<bindFn, bindUp, bindIn, bindCalls, bindCloses, bindCtxDone>>

\* what the step produces, one Value, is forwarded downstream
BindForward ==
    /\ BindFrame
    /\ bindPc = "step"
    /\ bindDown' = Append(bindDown, NewValueResult(ApplyBind(bindFn, bindArg[1])))
    /\ bindArg' = Nil
    /\ bindPc' = "drain"
    /\ UNCHANGED <<bindFn, bindUp, bindIn, bindCalls, bindCloses, bindCtxDone>>

\* BindDrainPartial with the step's function applied to the Partial result
BindDrainPartial_Transformed ==
    /\ BindFrame
    /\ bindPc = "drain"
    /\ bindUp /= << >>
    /\ Head(bindUp).kind = "Partial"
    /\ bindIn' = Append(bindIn, Head(bindUp))
    /\ bindUp' = Tail(bindUp)
    /\ bindDown' = Append(bindDown,
                          NewPartialResult(ApplyBind(bindFn, Head(bindUp).payload)))
    /\ UNCHANGED <<bindFn, bindPc, bindArg, bindCalls, bindCloses, bindCtxDone>>

\* a Partial result is drained: it is forwarded downstream as it is
BindDrainPartial ==
    /\ BindFrame
    /\ bindPc = "drain"
    /\ bindUp /= << >>
    /\ Head(bindUp).kind = "Partial"
    /\ bindIn' = Append(bindIn, Head(bindUp))
    /\ bindUp' = Tail(bindUp)
    /\ bindDown' = Append(bindDown, Head(bindUp))
    /\ UNCHANGED <<bindFn, bindPc, bindArg, bindCalls, bindCloses, bindCtxDone>>

\* BindDrainError with the draining going on after the Error
BindDrainError_Continue ==
    /\ BindFrame
    /\ bindPc = "drain"
    /\ bindUp /= << >>
    /\ Head(bindUp).kind = "Error"
    /\ bindIn' = Append(bindIn, Head(bindUp))
    /\ bindUp' = Tail(bindUp)
    /\ bindDown' = Append(bindDown, Head(bindUp))
    /\ UNCHANGED <<bindFn, bindPc, bindArg, bindCalls, bindCloses, bindCtxDone>>

\* an Error is drained: it is forwarded downstream as it is and Bind stops
BindDrainError ==
    /\ BindFrame
    /\ bindPc = "drain"
    /\ bindUp /= << >>
    /\ Head(bindUp).kind = "Error"
    /\ bindIn' = Append(bindIn, Head(bindUp))
    /\ bindUp' = Tail(bindUp)
    /\ bindDown' = Append(bindDown, Head(bindUp))
    /\ bindPc' = "close"
    /\ UNCHANGED <<bindFn, bindArg, bindCalls, bindCloses, bindCtxDone>>

\* the upstream stream is closed and drained, or the ctx is cancelled: Bind
\* stops draining
BindStop ==
    /\ BindFrame
    /\ bindPc = "drain"
    /\ bindUp = << >> \/ bindCtxDone
    /\ bindPc' = "close"
    /\ UNCHANGED <<bindFn, bindUp, bindIn, bindArg, bindCalls, bindDown,
                   bindCloses, bindCtxDone>>

\* the downstream stream is closed
BindClose ==
    /\ BindFrame
    /\ bindPc = "close"
    /\ bindCloses' = bindCloses + 1
    /\ bindPc' = "done"
    /\ UNCHANGED <<bindFn, bindUp, bindIn, bindArg, bindCalls, bindDown, bindCtxDone>>

NextBind ==
    \/ BindCancel
    \/ BindDrainValue
    \/ BindForward
    \/ BindDrainPartial
    \/ BindDrainError
    \/ BindStop
    \/ BindClose

\* ---------------------------------------------------------------- PipeStep
\* NewPipeStep(s1, s2) with the steps of the tests and, for s1, a step that
\* streams partial results before its value and one that fails:
\*   "simple"    s1: a + 1                      s2: Sprintf("%d", a + 1)
\*   "async"     s1: v := <-c; d <- v + a       s2: a := <-d; Sprintf("%d", a + 1)
\*   "streaming" s1: partial results, then a + 1
\*   "failing"   s1: partial results, then an error
PipeKinds == {"simple", "async", "streaming", "failing"}

\* helpers.Nothing{}
Nothing == "Nothing"

DigitChars == <<"0", "1", "2", "3", "4", "5", "6", "7", "8", "9">>

\* fmt.Sprintf("%d", n) of a natural number: its decimal digits
RECURSIVE Itoa(_)
Itoa(n) == IF n < 10 THEN <<DigitChars[n + 1]>>
           ELSE Itoa(n \div 10) \o <<DigitChars[(n % 10) + 1]>>

\* NewPipeStep
PipeInit ==
    /\ pipeKind \in PipeKinds
    /\ pipePc = "new"
    /\ pipeArg = 0
    /\ pipeC = << >>
    /\ pipeD = << >>
    /\ pipeS1 = << >>
    /\ pipeDrained = 0
    /\ pipeS2Calls = << >>
    /\ pipeOut = << >>
    /\ pipeCloses = 0

\* no PipeStep was constructed
PipeNone ==
    /\ pipeKind = "simple"
    /\ pipePc = "none"
    /\ pipeArg = 0
    /\ pipeC = << >>
    /\ pipeD = << >>
    /\ pipeS1 = << >>
    /\ pipeDrained = 0
    /\ pipeS2Calls = << >>
    /\ pipeOut = << >>
    /\ pipeCloses = 0

\* Run(ctx, a) is entered: step1 is run with a
PipeRun(a) ==
    /\ PipeFrame
    /\ pipePc = "new"
    /\ pipeArg' = a
    /\ pipePc' = "s1"
    /\ UNCHANGED <<pipeKind, pipeC, pipeD, pipeS1, pipeDrained, pipeS2Calls,
                   pipeOut, pipeCloses>>

\* the test sends v on c, which has room for one value
PipeFeed(v) ==
    /\ PipeFrame
    /\ pipeKind = "async"
    /\ pipeC = << >>
    /\ pipeS1 = << >>
    /\ pipeC' = <<v>>
    /\ UNCHANGED <<pipeKind, pipePc, pipeArg, pipeD, pipeS1, pipeDrained,
                   pipeS2Calls, pipeOut, pipeCloses>>

\* step1 produces a partial result
PipeS1Partial(p) ==
    /\ PipeFrame
    /\ pipePc = "s1"
    /\ pipeKind \in {"streaming", "failing"}
    /\ Len(pipeS1) < MaxLen
    /\ pipeS1' = Append(pipeS1, NewPartialResult(p))
    /\ UNCHANGED <<pipeKind, pipePc, pipeArg, pipeC, pipeD, pipeDrained,
                   pipeS2Calls, pipeOut, pipeCloses>>

\* the function of step1 returns (in "async" after it has received from c and
\* sent on d) and step1 produces its terminal Result
PipeS1Return ==
    /\ PipeFrame
    /\ pipePc = "s1"
    /\ pipeKind = "async" => pipeC /= << >>
    /\ pipeS1' = Append(pipeS1,
                     CASE pipeKind = "async" -> NewValueResult(Nothing)
                       [] pipeKind = "failing" -> NewErrorResult(ErrTransport)
                       [] OTHER -> NewValueResult(pipeArg + 1))
    /\ pipeC' = << >>
    /\ pipeD' = IF pipeKind = "async" THEN <<pipeC[1] + pipeArg>> ELSE pipeD
    /\ pipePc' = "drain"
    /\ UNCHANGED <<pipeKind, pipeArg, pipeDrained, pipeS2Calls, pipeOut, pipeCloses>>

\* PipeDrainPartial with the partial result of step1 put on the pipe's output
PipeDrainPartial_Forwarded ==
    /\ PipeFrame
    /\ pipePc = "drain"
    /\ pipeS1[pipeDrained + 1].kind = "Partial"
    /\ pipeDrained' = pipeDrained + 1
    /\ pipeOut' = Append(pipeOut, pipeS1[pipeDrained + 1])
    /\ UNCHANGED <<pipeKind, pipePc, pipeArg, pipeC, pipeD, pipeS1,
                   pipeS2Calls, pipeCloses>>

\* a partial result of step1 is drained and dropped
PipeDrainPartial ==
    /\ PipeFrame
    /\ pipePc = "drain"
    /\ pipeS1[pipeDrained + 1].kind = "Partial"
    /\ pipeDrained' = pipeDrained + 1
    /\ UNCHANGED <<pipeKind, pipePc, pipeArg, pipeC, pipeD, pipeS1,
                   pipeS2Calls, pipeOut, pipeCloses>>

\* the terminal Value of step1 is drained: step2 is run with it
PipeDrainValue ==
    /\ PipeFrame
    /\ pipePc = "drain"
    /\ pipeS1[pipeDrained + 1].kind = "Value"
    /\ pipeDrained' = pipeDrained + 1
    /\ pipeS2Calls' = Append(pipeS2Calls, pipeS1[pipeDrained + 1].payload)
    /\ pipePc' = "s2"
    /\ UNCHANGED <<pipeKind, pipeArg, pipeC, pipeD, pipeS1, pipeOut, pipeCloses>>

\* PipeDrainError with step2 run on the Error of step1
PipeDrainError_RunsStep2 ==
    /\ PipeFrame
    /\ pipePc = "drain"
    /\ pipeS1[pipeDrained + 1].kind = "Error"
    /\ pipeDrained' = pipeDrained + 1
    /\ pipeS2Calls' = Append(pipeS2Calls, pipeArg)
    /\ pipeOut' = Append(pipeOut, pipeS1[pipeDrained + 1])
    /\ pipePc' = "close"
    /\ UNCHANGED <<pipeKind, pipeArg, pipeC, pipeD, pipeS1, pipeCloses>>

\* the terminal Error of step1 is drained: it is put on the pipe's output and
\* step2 is not run
PipeDrainError ==
    /\ PipeFrame
    /\ pipePc = "drain"
    /\ pipeS1[pipeDrained + 1].kind = "Error"
    /\ pipeDrained' = pipeDrained + 1
    /\ pipeOut' = Append(pipeOut, pipeS1[pipeDrained + 1])
    /\ pipePc' = "close"
    /\ UNCHANGED <<pipeKind, pipeArg, pipeC, pipeD, pipeS1, pipeS2Calls, pipeCloses>>

\* the function of step2 returns (in "async" after it has received from d)
\* and its Value is put on the pipe's output
PipeS2Return ==
    /\ PipeFrame
    /\ pipePc = "s2"
    /\ pipeKind = "async" => pipeD /= << >>
    /\ pipeOut' = Append(pipeOut,
                      NewValueResult(Itoa((IF pipeKind = "async"
                                           THEN pipeD[1]
                                           ELSE Last(pipeS2Calls)) + 1)))
    /\ pipeD' = << >>
    /\ pipePc' = "close"
    /\ UNCHANGED <<pipeKind, pipeArg, pipeC, pipeS1, pipeDrained, pipeS2Calls, pipeCloses>>

\* the pipe's output is closed and Run returns nil
PipeClose ==
    /\ PipeFrame
    /\ pipePc = "close"
    /\ pipeCloses' = pipeCloses + 1
    /\ pipePc' = "done"
    /\ UNCHANGED <<pipeKind, pipeArg, pipeC, pipeD, pipeS1, pipeDrained,
                   pipeS2Calls, pipeOut>>

NextPipe ==
    \/ \E a \in 0..MaxInt : PipeRun(a)
    \/ \E v \in 0..MaxInt : PipeFeed(v)
    \/ \E p \in 0..MaxInt : PipeS1Partial(p)
    \/ PipeS1Return
    \/ PipeDrainPartial
    \/ PipeDrainValue
    \/ PipeDrainError
    \/ PipeS2Return
    \/ PipeClose

\* ----------------------------------------------------- MultiCompletionStep
\* the member steps there can be
Members == 1..MaxLen

\* the zero value of helpers.Result[string], received from a closed channel
ZeroResult == [kind |-> "Zero", payload |-> << >>]

\* the completion the service returns for the prompt of member m
Completion(m) == <<IF m % 2 = 1 THEN "a" ELSE "b">>

\* what member step m sends next on its output: a streaming step its
\* completion as a fragment and then its last Result, a step that does not
\* stream its one Result; either fails when its request does
MemberResults(m, stream, sent) ==
    IF stream
    THEN (IF sent = << >> THEN {NewPartialResult(Completion(m))} ELSE {})
         \cup {NewValueResult(<< >>), NewErrorResult(ErrTransport)}
    ELSE {NewValueResult(Completion(m)), NewErrorResult(ErrTransport)}

\* NewMultiCompletionStep
McInit ==
    /\ mcPc = "new"
    /\ prompts = 0
    /\ mcStream \in BOOLEAN
    /\ memberPc = [m \in Members |-> "none"]
    /\ chans = [m \in Members |-> << >>]
    /\ fwd = [m \in Members |-> Nil]
    /\ mergeClosed = FALSE
    /\ collected = << >>
    /\ results = << >>
    /\ collPc = "none"
    /\ ctx2Done = FALSE
    /\ mcErr = ""
    /\ mcOutput = << >>
    /\ mcCloses = 0
    /\ mcState = "StepNotStarted"

\* no MultiCompletionStep was constructed
McNone ==
    /\ mcPc = "none"
    /\ prompts = 0
    /\ mcStream = FALSE
    /\ memberPc = [m \in Members |-> "none"]
    /\ chans = [m \in Members |-> << >>]
    /\ fwd = [m \in Members |-> Nil]
    /\ mergeClosed = FALSE
    /\ collected = << >>
    /\ results = << >>
    /\ collPc = "none"
    /\ ctx2Done = FALSE
    /\ mcErr = ""
    /\ mcOutput = << >>
    /\ mcCloses = 0
    /\ mcState = "StepNotStarted"

\* Run up to eg.Wait: a member step per prompt, the collecting goroutine and
\* a goroutine per member are started
McRun(n) ==
    /\ McFrame
    /\ mcPc = "new"
    /\ prompts' = n
    /\ memberPc' = [m \in Members |-> IF m <= n THEN "run" ELSE "none"]
    /\ collPc' = "loop"
    /\ mcPc' = "wait"
    /\ UNCHANGED <<mcStream, chans, fwd, mergeClosed, collected, results, ctx2Done,
                   mcErr, mcOutput, mcCloses, mcState>>

\* the caller cancels the ctx it gave to Run, of which ctx2 is derived
McCancel ==
    /\ McFrame
    /\ mcPc \in {"new", "wait"}
    /\ ~ctx2Done
    /\ ctx2Done' = TRUE
    /\ UNCHANGED <<mcPc, prompts, mcStream, memberPc, chans, fwd, mergeClosed,
                   collected, results, collPc, mcErr, mcOutput, mcCloses, mcState>>

\* completionSteps[m].Run sends a Result on its output (no buffer): the
\* goroutine of MergeChannels that ranges over chans[m] receives it
McMemberSend(m, r) ==
    /\ McFrame
    /\ memberPc[m] = "run"
    /\ fwd[m] = Nil
    /\ r \in MemberResults(m, mcStream, chans[m])
    /\ chans' = [chans EXCEPT ![m] = Append(@, r)]
    /\ fwd' = [fwd EXCEPT ![m] = <<r>>]
    /\ memberPc' = [memberPc EXCEPT ![m] = IF r.kind = "Partial" THEN "run" ELSE "defer"]
    /\ UNCHANGED <<mcPc, prompts, mcStream, mergeClosed, collected, results, collPc,
                   ctx2Done, mcErr, mcOutput, mcCloses, mcState>>

\* completionSteps[m].Run returns nil; its deferred function closes its output
McMemberClose(m) ==
    /\ McFrame
    /\ memberPc[m] = "defer"
    /\ memberPc' = [memberPc EXCEPT ![m] = "closed"]
    /\ UNCHANGED <<mcPc, prompts, mcStream, chans, fwd, mergeClosed, collected,
                   results, collPc, ctx2Done, mcErr, mcOutput, mcCloses, mcState>>

\* MergeChannels: every member output is closed and forwarded, mergeChannel
\* is closed
McMergeClose ==
    /\ McFrame
    /\ mcPc = "wait"
    /\ ~mergeClosed
    /\ \A m \in 1..prompts : memberPc[m] = "closed" /\ fwd[m] = Nil
    /\ mergeClosed' = TRUE
    /\ UNCHANGED <<mcPc, prompts, mcStream, memberPc, chans, fwd, collected,
                   results, collPc, ctx2Done, mcErr, mcOutput, mcCloses, mcState>>

\* the string the collecting goroutine stores for a Result:
\* v, err := result.Value(); if err != nil { v = "" }
Stored(r) == IF r.kind = "Error" THEN << >> ELSE r.payload

\* McCollect with the goroutine returning on a Result that is an Error
McCollect_StopsAtError(m) ==
    /\ McFrame
    /\ collPc = "loop"
    /\ fwd[m] /= Nil
    /\ fwd' = [fwd EXCEPT ![m] = Nil]
    /\ IF fwd[m][1].kind = "Error"
       THEN /\ collPc' = "returned"
            /\ UNCHANGED <<collected, results>>
       ELSE /\ collected' = Append(collected, fwd[m][1])
            /\ results' = Append(results, Stored(fwd[m][1]))
            /\ collPc' = collPc
    /\ UNCHANGED <<mcPc, prompts, mcStream, memberPc, chans, mergeClosed,
                   ctx2Done, mcErr, mcOutput, mcCloses, mcState>>

\* select, case result := <-mergeChannel, a Result a member sent
McCollect(m) ==
    /\ McFrame
    /\ collPc = "loop"
    /\ fwd[m] /= Nil
    /\ fwd' = [fwd EXCEPT ![m] = Nil]
    /\ collected' = Append(collected, fwd[m][1])
    /\ results' = Append(results, Stored(fwd[m][1]))
    /\ UNCHANGED <<mcPc, prompts, mcStream, memberPc, chans, mergeClosed, collPc,
                   ctx2Done, mcErr, mcOutput, mcCloses, mcState>>

\* the number of Results all members have sent
NumSent == Len(Flatten([m \in Members |-> chans[m]]))

\* select, case result := <-mergeChannel, mergeChannel closed: the receive
\* does not test ok and yields the zero Result, again and again (followed
\* here for the first of them)
McCollectZero ==
    /\ McFrame
    /\ collPc = "loop"
    /\ mergeClosed
    /\ Len(collected) = NumSent
    /\ collected' = Append(collected, ZeroResult)
    /\ results' = Append(results, Stored(ZeroResult))
    /\ UNCHANGED <<mcPc, prompts, mcStream, memberPc, chans, fwd, mergeClosed,
                   collPc, ctx2Done, mcErr, mcOutput, mcCloses, mcState>>

\* select, case <-ctx2.Done(): return ctx2.Err()
McCollectorDone ==
    /\ McFrame
    /\ collPc = "loop"
    /\ ctx2Done
    /\ collPc' = "returned"
    /\ UNCHANGED <<mcPc, prompts, mcStream, memberPc, chans, fwd, mergeClosed,
                   collected, results, ctx2Done, mcErr, mcOutput, mcCloses, mcState>>

\* eg.Wait returns once every goroutine has returned, with the first error
\* that is not nil: the one of the collecting goroutine
McWait ==
    /\ McFrame
    /\ mcPc = "wait"
    /\ collPc = "returned"
    /\ \A m \in 1..prompts : memberPc[m] = "closed"
    /\ mcErr' = Canceled
    /\ mcPc' = "done"
    /\ UNCHANGED <<prompts, mcStream, memberPc, chans, fwd, mergeClosed, collected,
                   results, collPc, ctx2Done, mcOutput, mcCloses, mcState>>

\* the steps of the goroutines Run starts: the member steps, MergeChannels
\* and the collecting goroutine, and of eg.Wait
McGoroutines ==
    \/ \E m \in Members :
          \E r \in MemberResults(m, TRUE, << >>) \cup MemberResults(m, FALSE, << >>) :
              McMemberSend(m, r)
    \/ \E m \in Members : McMemberClose(m)
    \/ McMergeClose
    \/ \E m \in Members : McCollect(m)
    \/ McCollectZero
    \/ McCollectorDone
    \/ McWait

NextMc ==
    \/ \E n \in Members : McRun(n)
    \/ McCancel
    \/ \E m \in Members :
          \E r \in MemberResults(m, TRUE, << >>) \cup MemberResults(m, FALSE, << >>) :
              McMemberSend(m, r)
    \/ \E m \in Members : McMemberClose(m)
    \/ McMergeClose
    \/ \E m \in Members : McCollect(m)
    \/ McCollectZero
    \/ McCollectorDone
    \/ McWait

\* ----------------------------------------------------------- RunIntoWriter
ErrNoLayer == "No openai layer"
ErrWrite == "write error"

\* what the stream of the chat step bound to the messages yields: fragments
\* as Partial Results, then one terminal Result, then it is closed
RiwStreams ==
    {ps \o <<t>> :
        ps \in UNION {[1..n -> {NewPartialResult(f) : f \in Fragments}] : n \in 0..(MaxLen - 1)},
        t \in {NewValueResult(<< >>), NewErrorResult(ErrTransport)}}

\* the command was built, RunIntoWriter not called
RiwInit ==
    /\ riwPc = "new"
    /\ riwCtxDone = FALSE
    /\ riwStream = << >>
    /\ riwPos = 0
    /\ riwSawClose = FALSE
    /\ riwWritten = << >>
    /\ accumulate = << >>
    /\ riwErr = ""

\* no command was built
RiwNone ==
    /\ riwPc = "none"
    /\ riwCtxDone = FALSE
    /\ riwStream = << >>
    /\ riwPos = 0
    /\ riwSawClose = FALSE
    /\ riwWritten = << >>
    /\ accumulate = << >>
    /\ riwErr = ""

\* the caller cancels the ctx it gave, or will give, to RunIntoWriter
RiwCancel ==
    /\ RiwFrame
    /\ riwPc \in {"new", "loop"}
    /\ ~riwCtxDone
    /\ riwCtxDone' = TRUE
    /\ UNCHANGED <<riwPc, riwStream, riwPos, riwSawClose, riwWritten, accumulate, riwErr>>

\* RunIntoWriter up to its loop: m := steps.Bind(ctx, messagesM, chatStep),
\* then the "openai-chat" layer is looked up and the return is taken when it
\* is missing
RiwRun(stream, hasLayer) ==
    /\ RiwFrame
    /\ riwPc = "new"
    /\ riwStream' = stream
    /\ IF hasLayer
       THEN /\ riwPc' = "loop"
            /\ riwErr' = riwErr
       ELSE /\ riwPc' = "returned"
            /\ riwErr' = ErrNoLayer
    /\ UNCHANGED <<riwCtxDone, riwPos, riwSawClose, riwWritten, accumulate>>

\* select, case <-ctx.Done(): return ctx.Err()
RiwSelectDone ==
    /\ RiwFrame
    /\ riwPc = "loop"
    /\ riwCtxDone
    /\ riwPc' = "returned"
    /\ riwErr' = Canceled
    /\ UNCHANGED <<riwCtxDone, riwStream, riwPos, riwSawClose, riwWritten, accumulate>>

\* select, case result, ok := <-m.GetChannel() with ok false: return nil
RiwRecvClosed ==
    /\ RiwFrame
    /\ riwPc = "loop"
    /\ riwPos = Len(riwStream)
    /\ riwSawClose' = TRUE
    /\ riwPc' = "returned"
    /\ riwErr' = ""
    /\ UNCHANGED <<riwCtxDone, riwStream, riwPos, riwWritten, accumulate>>

\* RiwRecv with a Partial Result taken for a failure: the loop returns on it
RiwRecv_PartialFails(writeOk) ==
    /\ RiwFrame
    /\ riwPc = "loop"
    /\ riwPos < Len(riwStream)
    /\ riwPos' = riwPos + 1
    /\ LET result == riwStream[riwPos + 1] IN
        IF result.kind \in {"Error", "Partial"}
        THEN /\ riwPc' = "returned"
             /\ riwErr' = IF result.kind = "Error" THEN result.payload ELSE ErrTransport
             /\ UNCHANGED <<riwWritten, accumulate>>
        ELSE IF ~writeOk
        THEN /\ riwPc' = "returned"
             /\ riwErr' = ErrWrite
             /\ UNCHANGED <<riwWritten, accumulate>>
        ELSE /\ riwWritten' = Append(riwWritten, result.payload)
             /\ accumulate' = accumulate \o result.payload
             /\ riwPc' = "loop"
             /\ riwErr' = riwErr
    /\ UNCHANGED <<riwCtxDone, riwStream, riwSawClose>>

\* select, case result, ok := <-m.GetChannel() with ok true: an Error Result
\* is returned as the error, the value of another Result is written to w and
\* added to accumulate, a failed write is returned as the error
RiwRecv(writeOk) ==
    /\ RiwFrame
    /\ riwPc = "loop"
    /\ riwPos < Len(riwStream)
    /\ riwPos' = riwPos + 1
    /\ LET result == riwStream[riwPos + 1] IN
        IF result.kind = "Error"
        THEN /\ riwPc' = "returned"
             /\ riwErr' = result.payload
             /\ UNCHANGED <<riwWritten, accumulate>>
        ELSE IF ~writeOk
        THEN /\ riwPc' = "returned"
             /\ riwErr' = ErrWrite
             /\ UNCHANGED <<riwWritten, accumulate>>
        ELSE /\ riwWritten' = Append(riwWritten, result.payload)
             /\ accumulate' = accumulate \o result.payload
             /\ riwPc' = "loop"
             /\ riwErr' = riwErr
    /\ UNCHANGED <<riwCtxDone, riwStream, riwSawClose>>

NextRiw ==
    \/ RiwCancel
    \/ \E stream \in RiwStreams, hasLayer \in BOOLEAN : RiwRun(stream, hasLayer)
    \/ RiwSelectDone
    \/ RiwRecvClosed
    \/ \E writeOk \in BOOLEAN : RiwRecv(writeOk)

\* ------------------------------------------------------- TranscribeCommand
ErrNoFiles == "No files found"

\* the command was built, Run not called
TrInit ==
    /\ trPc = "new"
    /\ trFiles = 0
    /\ workers = 0
    /\ trStarted = 0
    /\ trRunning = 0
    /\ trOut = 0
    /\ trCollected = 0
    /\ trErr = ""

\* no command was built
TrNone ==
    /\ trPc = "none"
    /\ trFiles = 0
    /\ workers = 0
    /\ trStarted = 0
    /\ trRunning = 0
    /\ trOut = 0
    /\ trCollected = 0
    /\ trErr = ""

\* Run up to the loop over files: n files were found, w workers are asked
\* for; no file is an error
TrRun(n, w) ==
    /\ TrFrame
    /\ trPc = "new"
    /\ trFiles' = n
    /\ workers' = w
    /\ IF n = 0
       THEN /\ trPc' = "returned"
            /\ trErr' = ErrNoFiles
       ELSE /\ trPc' = "range"
            /\ trErr' = trErr
    /\ UNCHANGED <<trStarted, trRunning, trOut, trCollected>>

\* for _, file := range files: wg.Add(1); go tc.TranscribeFile(file, out, &wg)
TrStartFile ==
    /\ TrFrame
    /\ trPc = "range"
    /\ trStarted < trFiles
    /\ trStarted' = trStarted + 1
    /\ trRunning' = trRunning + 1
    /\ trPc' = "limit"
    /\ UNCHANGED <<trFiles, workers, trOut, trCollected, trErr>>

\* for len(out) >= workers: transcription := <-out
TrLimitRecv ==
    /\ TrFrame
    /\ trPc = "limit"
    /\ trOut >= workers
    /\ trOut > 0
    /\ trOut' = trOut - 1
    /\ trCollected' = trCollected + 1
    /\ UNCHANGED <<trPc, trFiles, workers, trStarted, trRunning, trErr>>

\* len(out) < workers: the next file, or wg.Wait() after the last one
TrLimitExit ==
    /\ TrFrame
    /\ trPc = "limit"
    /\ trOut < workers
    /\ trPc' = IF trStarted < trFiles THEN "range" ELSE "wait"
    /\ UNCHANGED <<trFiles, workers, trStarted, trRunning, trOut, trCollected, trErr>>

\* a TranscribeFile goroutine ends: it sends its transcription on out, which
\* has room for one per file, and calls wg.Done()
TrFileDone ==
    /\ TrFrame
    /\ trRunning > 0
    /\ trRunning' = trRunning - 1
    /\ trOut' = trOut + 1
    /\ UNCHANGED <<trPc, trFiles, workers, trStarted, trCollected, trErr>>

\* wg.Wait() returns; close(out)
TrWait ==
    /\ TrFrame
    /\ trPc = "wait"
    /\ trRunning = 0
    /\ trPc' = "drain"
    /\ UNCHANGED <<trFiles, workers, trStarted, trRunning, trOut, trCollected, trErr>>

\* for transcription := range out
TrDrain ==
    /\ TrFrame
    /\ trPc = "drain"
    /\ trOut > 0
    /\ trOut' = trOut - 1
    /\ trCollected' = trCollected + 1
    /\ UNCHANGED <<trPc, trFiles, workers, trStarted, trRunning, trErr>>

\* out is closed and empty: the rows are written and Run returns nil
TrReturn ==
    /\ TrFrame
    /\ trPc = "drain"
    /\ trOut = 0
    /\ trPc' = "returned"
    /\ UNCHANGED <<trFiles, workers, trStarted, trRunning, trOut, trCollected, trErr>>

NextTr ==
    \/ \E n \in 0..MaxLen, w \in 1..MaxInt : TrRun(n, w)
    \/ TrStartFile
    \/ TrLimitRecv
    \/ TrLimitExit
    \/ TrFileDone
    \/ TrWait
    \/ TrDrain
    \/ TrReturn

\* ---------------------------------------------------- StandardStepFactory
ErrUpdate == "update from parsed layers failed"
ErrNoChatEngine == "no chat engine specified"
ErrUnknownChatEngine == "unknown chat engine"

\* settings_.Chat after the update: nil, set with a nil Engine, or set with
\* an Engine
ChatSettings == {"nil", "nil engine", "engine"}

\* what a call of NewStepFromLayers can meet
SfCalls ==
    [updateErr : {"", ErrUpdate}, chat : ChatSettings,
     isOpenAi : BOOLEAN, isClaude : BOOLEAN]

\* NewStepFromLayers with the two engine tests in the other order
NewStepFromLayers_ClaudeFirst(c) ==
    IF c.updateErr /= "" THEN [step |-> Nil, err |-> c.updateErr]
    ELSE IF c.chat /= "engine" THEN [step |-> Nil, err |-> ErrNoChatEngine]
    ELSE IF c.isClaude THEN [step |-> <<"claude.Step">>, err |-> ""]
    ELSE IF c.isOpenAi THEN [step |-> <<"openai.ChatStep">>, err |-> ""]
    ELSE [step |-> Nil, err |-> ErrUnknownChatEngine]

\* NewStepFromLayers: the (Step, error) pair it returns
NewStepFromLayers(c) ==
    IF c.updateErr /= "" THEN [step |-> Nil, err |-> c.updateErr]
    ELSE IF c.chat /= "engine" THEN [step |-> Nil, err |-> ErrNoChatEngine]
    ELSE IF c.isOpenAi THEN [step |-> <<"openai.ChatStep">>, err |-> ""]
    ELSE IF c.isClaude THEN [step |-> <<"claude.Step">>, err |-> ""]
    ELSE [step |-> Nil, err |-> ErrUnknownChatEngine]

\* a StandardStepFactory with its Settings, no call made
SfInit ==
    /\ sfPc = "new"
    /\ sfCall = Nil
    /\ sfStep = Nil
    /\ sfErr = ""

\* no factory was built
SfNone ==
    /\ sfPc = "none"
    /\ sfCall = Nil
    /\ sfStep = Nil
    /\ sfErr = ""

\* a call of NewStepFromLayers that meets c, up to its return
SfNewStepFromLayers(c) ==
    /\ SfFrame
    /\ sfPc \in {"new", "returned"}
    /\ sfPc' = "returned"
    /\ sfCall' = <<c>>
    /\ sfStep' = NewStepFromLayers(c).step
    /\ sfErr' = NewStepFromLayers(c).err

NextSf ==
    \E c \in SfCalls : SfNewStepFromLayers(c)

\* ------------------------------------------------------------------- system
\* the steps other than the one of kind were not constructed
NoneBut(kind) ==
    /\ kind /= "completion.Step" => CompNone
    /\ kind /= "openai.Step" => ChatNone
    /\ kind /= "SimpleStep" => SimpleNone
    /\ kind /= "Bind" => BindNone
    /\ kind /= "PipeStep" => PipeNone
    /\ kind /= "MultiCompletionStep" => McNone
    /\ kind /= "RunIntoWriter" => RiwNone
    /\ kind /= "TranscribeCommand" => TrNone
    /\ kind /= "StandardStepFactory" => SfNone

Init ==
    \/ stepKind = "EchoStep" /\ EchoInit /\ NoneBut("EchoStep")
    \/ stepKind = "completion.Step" /\ EchoInit /\ CompInit /\ NoneBut("completion.Step")
    \/ stepKind = "openai.Step" /\ EchoInit /\ ChatInit /\ NoneBut("openai.Step")
    \/ stepKind = "SimpleStep" /\ EchoInit /\ SimpleInit /\ NoneBut("SimpleStep")
    \/ stepKind = "Bind" /\ EchoInit /\ BindInit /\ NoneBut("Bind")
    \/ stepKind = "PipeStep" /\ EchoInit /\ PipeInit /\ NoneBut("PipeStep")
    \/ stepKind = "MultiCompletionStep" /\ EchoInit /\ McInit /\ NoneBut("MultiCompletionStep")
    \/ stepKind = "RunIntoWriter" /\ EchoInit /\ RiwInit /\ NoneBut("RunIntoWriter")
    \/ stepKind = "TranscribeCommand" /\ EchoInit /\ TrInit /\ NoneBut("TranscribeCommand")
    \/ stepKind = "StandardStepFactory" /\ EchoInit /\ SfInit /\ NoneBut("StandardStepFactory")

Next ==
    NextEcho \/ NextComp \/ NextChat \/ NextSimple \/ NextBind \/ NextPipe \/ NextMc
        \/ NextRiw
        \/ NextTr
        \/ NextSf

Spec == Init /\ [][Next]_vars

\* the Go scheduler runs every goroutine that can take a step
FairSpec ==
    /\ Spec
    /\ \A r \in Runs : WF_vars(EchoGoroutine(r))
    /\ WF_vars(ChatGoroutine)
    /\ WF_vars(McGoroutines)

\* ------------------------------------------------------------------ claims

\* a stream in which a terminal Result, if any, is the last Result
TerminalIsLast(s) == \A i \in DOMAIN s : IsTerminal(s[i]) => i = Len(s)

\* a stream that ends with its terminal Result
EndsWithTerminal(s) == s /= << >> /\ IsTerminal(Last(s)) /\ TerminalIsLast(s)

\* C1: in every result stream of the completion Step, the openai chat Step and
\* the EchoStep at most one terminal Result (Value or Error) is emitted and no
\* Result follows it; only Partial results precede it.
C1_TerminalIsLast ==
    /\ TerminalIsLast(output)
    /\ TerminalIsLast(chatC)
    /\ \A r \in Runs : TerminalIsLast(echoStream[r])

\* a completion Step has streamed MaxLen partial results and its terminal one
C1_Witness ==
    /\ compPc = "returned"
    /\ Len(output) = MaxLen + 1
    /\ IsTerminal(Last(output))

\* C2: a pure-function step wrapping f, run on x, yields exactly one stream
\* item, Value(f(x)), and then closes its stream, also when f waits for a
\* value from outside before it returns.
C2_SimpleStepYieldsValue ==
    LET fx == IF simpleFn = "inc" THEN simpleArg + 1 ELSE simpleExt[1] + simpleArg
    IN  /\ Len(simpleOut) <= 1
        /\ simpleCloses <= 1
        /\ simpleOut /= << >> => simpleOut = <<[kind |-> "Value", payload |-> fx]>>
        /\ simpleCloses = 1 => Len(simpleOut) = 1

\* a step whose function waited for a value has emitted its result and closed
C2_Witness ==
    /\ simpleFn = "recvAdd"
    /\ simplePc = "done"
    /\ simpleCloses = 1
    /\ simpleArg = 1 /\ simpleExt = <<1>>
    /\ simpleOut = <<[kind |-> "Value", payload |-> 2]>>

\* C3: the producer closes its output stream exactly once, only after it has
\* emitted the terminal Result (or after emitting nothing when it was
\* interrupted before producing anything); the stream is never closed twice
\* and nothing is sent on it after it is closed, whatever the sequence of
\* Run/Start and Interrupt calls. (A Run that an index out of range ended is
\* left aside here.)
C3_ClosedOnceAfterTerminal ==
    /\ outputCloses <= 1
    /\ compPanic /= "send on closed channel"
    /\ (outputCloses >= 1 /\ compPanic /= "index out of range")
          => EndsWithTerminal(output)
    /\ chatCloses <= 1
    /\ chatCloses >= 1 => \/ EndsWithTerminal(chatC)
                          \/ chatC = << >> /\ chatCtxDone
    /\ \A r \in Runs :
          /\ echoClosed[r] <= 1
          /\ echoClosed[r] >= 1 => \/ EndsWithTerminal(echoStream[r])
                                   \/ echoStream[r] = << >> /\ ctxDone[r]

\* the Partial results of a stream carry exactly the fragments frs, in order,
\* and one terminal Result follows them
PartialsThenTerminal(s, frs) ==
    /\ Len(s) = Len(frs) + 1
    /\ \A i \in DOMAIN frs : s[i] = [kind |-> "Partial", payload |-> frs[i]]
    /\ IsTerminal(Last(s))

\* C4: a provider step with streaming disabled yields exactly one terminal
\* item and closes; with streaming enabled and k fragments delivered before
\* the end of the stream it yields k Partial items, one per fragment in
\* arrival order, then exactly one terminal item, and closes.
C4_PartialsThenOneTerminal ==
    /\ (outputCloses = 1 /\ compPc \in {"returned", "crashed"})
          => PartialsThenTerminal(output, compRecvd)
    /\ (chatCloses = 1 /\ ~chatCtxDone)
          => PartialsThenTerminal(chatC, chatRecvd)

\* C5 (as stated): the payload of the final Value of a streaming provider step
\* is the concatenation of the payloads of the Partial results before it; with
\* streaming disabled it is the single full completion.
C5_ValueIsConcatenation ==
    /\ (compPc = "returned" /\ Last(output).kind = "Value")
          => Last(output).payload = IF settings.Stream
                                    THEN ConcatOf(output, "Partial")
                                    ELSE compResp[1].choices[1]
    /\ (chatPc = "done" /\ chatC /= << >> /\ Last(chatC).kind = "Value")
          => Last(chatC).payload = IF chatSettings.Stream
                                   THEN ConcatOf(chatC, "Partial")
                                   ELSE chatResp[1].choices[1]

\* C5 (amended): the final Value of a streaming provider step carries the
\* empty text; the payloads of the Partial results before it, concatenated in
\* order, are the concatenation of the fragments the transport delivered.
\* With streaming disabled the Value carries the single full completion.
C5_ValueIsEmptyAfterPartials ==
    /\ (compPc = "returned" /\ Last(output).kind = "Value")
          => IF settings.Stream
             THEN /\ Last(output).payload = << >>
                  /\ ConcatOf(output, "Partial") = Flatten(compRecvd)
             ELSE Last(output).payload = compResp[1].choices[1]
    /\ (chatPc = "done" /\ chatC /= << >> /\ Last(chatC).kind = "Value")
          => IF chatSettings.Stream
             THEN /\ Last(chatC).payload = << >>
                  /\ ConcatOf(chatC, "Partial") = Flatten(chatRecvd)
             ELSE Last(chatC).payload = chatResp[1].choices[1]

\* a streaming completion Step has ended with a Value after MaxLen fragments
C5_Witness ==
    /\ compPc = "returned"
    /\ settings.Stream
    /\ Len(compRecvd) = MaxLen
    /\ Last(output).kind = "Value"

\* C6: Interrupt() on an EchoStep that is running always makes the terminal
\* Result of the stream a cancellation Error, never a Value, and the stream
\* is then closed. Stated for the interrupts that arrive before the goroutine
\* has published its terminal event.
C6_InterruptYieldsError ==
    \A r \in Runs :
        (/\ interruptedAt[r] /= << >>
         /\ interruptedAt[r][1].pc \in {"select", "final"}
         /\ echoClosed[r] >= 1)
            => Last(echoStream[r]) = [kind |-> "Error", payload |-> Canceled]

\* C7: when a running step is interrupted after it has produced the partial
\* output p, exactly one interrupt event is published and its text is p, the
\* last partial payload, not the full text.
C7_InterruptEventCarriesPartial ==
    \A r \in Runs :
        LET n == NumEvents(echoEvents[r], "partial")
        IN  (/\ interruptedAt[r] /= << >>
             /\ interruptedAt[r][1].pc = "select"
             /\ interruptedAt[r][1].idx >= 1
             /\ interruptedAt[r][1].idx < Len(msgText[r])
             /\ echoClosed[r] >= 1
             /\ Last(echoStream[r]).kind = "Error")
                => /\ NumEvents(echoEvents[r], "interrupt") = 1
                   /\ \A i \in DOMAIN echoEvents[r] :
                         echoEvents[r][i].type = "interrupt"
                             => echoEvents[r][i].text = Prefix(msgText[r], n)

\* C8: once Interrupt() has cancelled the ctx of a run, the run publishes no
\* further partial-completion event.
C8_NoPartialAfterInterrupt ==
    [][\A r \in Runs :
          ctxDone[r] => NumEvents(echoEvents'[r], "partial")
                          = NumEvents(echoEvents[r], "partial")]_vars

\* C9: the terminal Result and the terminal event of an EchoStep run are
\* paired: the stream ends with a cancellation Error iff exactly one interrupt
\* event was published, with a Value iff exactly one final event was
\* published, and no run publishes both a final and an interrupt event.
C9_TerminalPaired ==
    \A r \in Runs :
        LET nInterrupt == NumEvents(echoEvents[r], "interrupt")
            nFinal == NumEvents(echoEvents[r], "final")
        IN  /\ ~(nInterrupt >= 1 /\ nFinal >= 1)
            /\ echoClosed[r] >= 1 =>
                  /\ echoStream[r] /= << >>
                  /\ Last(echoStream[r]) = [kind |-> "Error", payload |-> Canceled]
                        <=> nInterrupt = 1
                  /\ Last(echoStream[r]).kind = "Value" <=> nFinal = 1

\* a run interrupted after a partial event has closed its stream with an Error
C9_Witness ==
    \E r \in Runs :
        /\ echoClosed[r] = 1
        /\ Last(echoStream[r]).kind = "Error"
        /\ NumEvents(echoEvents[r], "partial") >= 1
        /\ NumEvents(echoEvents[r], "interrupt") = 1

\* C10: when the ctx is cancelled while the openai chat Step is streaming, the
\* step emits exactly one cancellation Error as the terminal Result of its
\* stream before the stream is closed.
C10_CancelYieldsError ==
    (chatCancelledAt \in {"select", "recv", "sendPartial"} /\ chatPc = "done")
        => /\ NumResults(chatC, {"Value", "Error"}) = 1
           /\ Last(chatC) = [kind |-> "Error", payload |-> Canceled]

\* C11: an EchoStep run that is not interrupted, on a last message of n
\* characters, emits on its result stream exactly n Partial results, then one
\* terminal Value carrying the full text, and then closes the stream.
C11_EchoStreamsPartials ==
    \A r \in Runs :
        (echoClosed[r] >= 1 /\ ~ctxDone[r])
            => LET n == Len(msgText[r])
               IN  /\ Len(echoStream[r]) = n + 1
                   /\ \A i \in 1..n : echoStream[r][i].kind = "Partial"
                   /\ echoStream[r][n + 1] = [kind |-> "Value", payload |-> msgText[r]]

\* C12: the events of one EchoStep run are published in production order: the
\* partial-completion events of characters 1..k in increasing order, then at
\* most one terminal event (final or interrupt), which is the last event of
\* the run and is published before the terminal Result is put on the stream.
C12_EventsInProductionOrder ==
    \A r \in Runs :
        LET ev == echoEvents[r]
            k == Cardinality({i \in DOMAIN ev : ev[i].type = "partial"})
            deltas == [i \in 1..k |-> ev[i].delta]
        IN  /\ \A i \in DOMAIN ev :
                  i <= k => ev[i].type = "partial" /\ ev[i].delta /= << >>
            /\ Flatten(deltas) = Prefix(msgText[r], Len(Flatten(deltas)))
            /\ Len(ev) <= k + 1
            /\ Len(ev) = k + 1 => ev[k + 1].type \in {"final", "interrupt"}
            /\ echoStream[r] /= << >> => Len(ev) = k + 1

\* a run has published MaxLen partial events and the final event, and has put
\* its Value on the stream
C12_Witness ==
    \E r \in Runs :
        /\ Len(echoEvents[r]) = MaxLen + 1
        /\ echoEvents[r][MaxLen + 1].type = "final"
        /\ echoStream[r] /= << >>

\* C13: a Start with an empty input returns an error and changes nothing
\* else: no run and no stream is created, no event is published and the
\* cancel function stays what it was; on a step that has had no other Start
\* the cancel function is nil and no ctx is ever cancelled, so Interrupt has
\* no effect.
C13_EmptyInputFailsAtOnce ==
    [][/\ (startErr = "" /\ startErr' = "no input")
            => UNCHANGED <<cancel, nStarts, echoPc, msgText, idx, ctxDone, echoC,
                           echoClosed, echoStream, echoEvents>>
       /\ nStarts' = 0
            => /\ cancel' = 0
               /\ \A r \in Runs : /\ echoPc'[r] = "none"
                                   /\ ~ctxDone'[r]
                                   /\ echoEvents'[r] = << >>
                                   /\ echoStream'[r] = << >>]_vars

\* a Start with an empty input has failed on a step that has a run going
C13_Witness ==
    /\ startErr = "no input"
    /\ cancel /= 0
    /\ echoPc[cancel] = "select"

\* C14: a completion Step run without its required configuration (no client
\* settings, no API key, or neither an engine nor a default engine) fails
\* with a returned error and puts no item on its stream.
C14_ConfigErrorPutsNothingOnStream ==
    stepKind = "completion.Step" =>
        LET missing ==
              \/ settings.ClientSettings = << >>
              \/ settings.ClientSettings[1].APIKey = << >>
              \/ /\ settings.Engine = << >>
                 /\ settings.ClientSettings[1].DefaultEngine = << >>
        IN  missing => output = << >>

\* C15: once a provider step has started, a failure of the run (an error of
\* the request, N different from 1, a response without choices) is delivered
\* as exactly one terminal Error on the stream, nothing follows it, the stream
\* is closed and the call does not fail otherwise. Stated for the first Run
\* of a completion Step and for the Start of the openai chat Step with
\* streaming disabled.
C15_FailureIsOneTerminalError ==
    /\ (/\ stepKind = "completion.Step"
         /\ compPc \in {"returned", "crashed"}
         /\ outputCloses = 1
         /\ \/ (settings.N /= << >> /\ settings.N[1] /= 1)
            \/ (compResp /= << >> /\ (compResp[1].err \/ compResp[1].choices = << >>)))
           => /\ compPanic = ""
              /\ output /= << >>
              /\ output[Len(output)].kind = "Error"
              /\ Cardinality({i \in DOMAIN output : output[i].kind \in {"Value", "Error"}}) = 1
    /\ (/\ stepKind = "openai.Step"
         /\ chatPc \in {"done", "crashed"}
         /\ chatResp /= << >>
         /\ (chatResp[1].err \/ chatResp[1].choices = << >>))
           => /\ chatPanic = ""
              /\ chatCloses = 1
              /\ Len(chatC) = 1
              /\ chatC[1].kind = "Error"

\* C16: in the first Run of a completion Step, as soon as a terminal Result
\* (Value or Error) is on the stream the state is StepFinished or StepClosed,
\* never StepNotStarted or StepRunning. Stated for the steps whose
\* configuration is complete.
C16_FinishedOnceTerminalEmitted ==
    (/\ stepKind = "completion.Step"
     /\ outputCloses = 0
     /\ \E i \in DOMAIN output : output[i].kind \in {"Value", "Error"})
        => \/ state \in {"StepFinished", "StepClosed"}
           \/ settings.ClientSettings = << >>
           \/ settings.ClientSettings[1].APIKey = << >>
           \/ /\ settings.Engine = << >>
              /\ settings.ClientSettings[1].DefaultEngine = << >>

\* the place of a state in NotStarted -> Running -> Finished -> Closed
StateRank(st) ==
    CASE st \in {"StepNotStarted", "SimpleStepNotStarted"} -> 0
      [] st \in {"StepRunning", "SimpleStepRunning"} -> 1
      [] st \in {"StepFinished", "SimpleStepFinished"} -> 2
      [] st \in {"StepClosed", "SimpleStepClosed"} -> 3

\* C17: the state of a step is NotStarted until the step is first run, then
\* only moves forward along NotStarted -> Running -> Finished -> Closed under
\* any sequence of operations, and is Closed once the output stream has been
\* closed.
C17_StateOnlyMovesForward ==
    [][/\ StateRank(state') >= StateRank(state)
       /\ StateRank(simpleState') >= StateRank(simpleState)
       /\ compPc' \in {"new", "none"} => state' = "StepNotStarted"
       /\ simplePc' \in {"new", "none"} => simpleState' = "SimpleStepNotStarted"
       /\ outputCloses' >= 1 => state' = "StepClosed"
       /\ simpleCloses' >= 1 => simpleState' = "SimpleStepClosed"]_vars

\* C18: Bind over an upstream stream of terminal Values [v1..vn] and a
\* pure-function step f, its ctx not cancelled, puts downstream exactly the
\* terminal Values [f(v1)..f(vn)], in upstream order, and then closes the
\* downstream stream, once.
C18_BindMapsValues ==
    (/\ stepKind = "Bind"
     /\ ~bindCtxDone
     /\ \A i \in DOMAIN bindIn : bindIn[i].kind = "Value"
     /\ \A i \in DOMAIN bindUp : bindUp[i].kind = "Value")
        => LET upstream == bindIn \o bindUp
               f(v) == IF bindFn = "inc" THEN v + 1 ELSE ToUpper(v)
           IN  /\ Len(bindDown) <= Len(upstream)
               /\ \A i \in DOMAIN bindDown :
                     bindDown[i] = [kind |-> "Value", payload |-> f(upstream[i].payload)]
               /\ bindCloses <= 1
               /\ bindCloses = 1 => Len(bindDown) = Len(upstream)
               /\ bindPc = "done" => bindCloses = 1

\* Bind has mapped MaxLen + 1 integers through x + 1 and closed
C18_Witness ==
    /\ bindFn = "inc"
    /\ bindPc = "done"
    /\ ~bindCtxDone
    /\ Len(bindIn) = MaxLen + 1
    /\ \A i \in DOMAIN bindIn : bindIn[i].kind = "Value"
    /\ bindDown = [i \in DOMAIN bindIn |->
                      [kind |-> "Value", payload |-> bindIn[i].payload + 1]]

\* C19: when Bind drains an Error from the upstream stream it forwards that
\* Error downstream unchanged as the last downstream item, does not start the
\* step for it, and drains no later upstream item.
C19_BindStopsAtError ==
    \A i \in DOMAIN bindIn :
        bindIn[i].kind = "Error"
            => /\ i = Len(bindIn)
               /\ Len(bindDown) = i
               /\ bindDown[i] = bindIn[i]
               /\ Len(bindCalls) = Cardinality({j \in DOMAIN bindIn : bindIn[j].kind = "Value"})
               /\ bindArg = << >>
               /\ bindPc \in {"close", "done"}

\* Bind has closed after [Value(1), Error(e)] with an upstream item left
C19_Witness ==
    /\ bindFn = "inc"
    /\ bindPc = "done"
    /\ bindUp /= << >>
    /\ Len(bindIn) = 2
    /\ bindIn[1] = [kind |-> "Value", payload |-> 1]
    /\ bindIn[2].kind = "Error"
    /\ bindDown = <<[kind |-> "Value", payload |-> 2], bindIn[2]>>

\* C20: Bind forwards every Partial result of the upstream stream downstream
\* unchanged and does not start the step for it: the step is started with the
\* terminal Values only, in order.
C20_BindForwardsPartials ==
    LET IsValue(r) == r.kind = "Value"
        values == SelectSeq(bindIn, IsValue)
    IN  /\ Len(bindDown) <= Len(bindIn)
        /\ \A i \in DOMAIN bindDown :
              bindIn[i].kind = "Partial" => bindDown[i] = bindIn[i]
        /\ bindCalls = [j \in DOMAIN values |-> values[j].payload]

\* Bind with ToUpper has forwarded the fragment "a" and answered the final
\* Value of a streamed completion
C20_Witness ==
    /\ bindFn = "ToUpper"
    /\ bindPc = "done"
    /\ Len(bindDown) >= 2
    /\ bindDown[1] = [kind |-> "Partial", payload |-> <<"a">>]
    /\ bindDown[Len(bindDown)].kind = "Value"
    /\ Len(bindCalls) = 1

\* C21: a pipe of step1 and step2 run on x, where step1 ends with Value(a) and
\* step2 on a ends with Value(b), puts exactly [Value(b)] on its output and
\* closes it: no Result of step1, partial or terminal, is put on the output,
\* also when step1 and step2 wait for a value from outside before they return.
C21_PipeYieldsStep2Value ==
    (stepKind = "PipeStep" /\ pipeKind /= "failing")
        => /\ pipeOut /= << >> =>
                 /\ Len(pipeOut) = 1
                 /\ Len(pipeS2Calls) = 1
                 /\ pipeS2Calls[1] = pipeS1[Len(pipeS1)].payload
                 /\ pipeOut[1].kind = "Value"
                 /\ pipeKind /= "async" => pipeOut[1].payload = Itoa(pipeArg + 2)
           /\ pipeCloses <= 1
           /\ pipeCloses = 1 => Len(pipeOut) = 1
           /\ pipePc = "done" => pipeCloses = 1

\* the pipe of the test with channels, run on 1 and fed 1, has put
\* Value("3") on its output and closed it
C21_Witness ==
    /\ pipeKind = "async"
    /\ pipePc = "done"
    /\ pipeArg = 1
    /\ pipeS1 = <<[kind |-> "Value", payload |-> "Nothing"]>>
    /\ pipeOut = <<[kind |-> "Value", payload |-> <<"3">>]>>

\* C22: when step1 of a pipe ends with Error(e), the pipe's output is exactly
\* [Error(e)] and step2 is never run.
C22_PipeForwardsStep1Error ==
    (/\ stepKind = "PipeStep"
     /\ pipeDrained >= 1
     /\ pipeS1[pipeDrained].kind = "Error")
        => /\ pipeOut = <<pipeS1[pipeDrained]>>
           /\ pipeS2Calls = << >>
           /\ pipePc \in {"close", "done"}

\* a pipe whose step1 failed after a partial result has closed its output
C22_Witness ==
    /\ pipeKind = "failing"
    /\ pipePc = "done"
    /\ Len(pipeS1) >= 2
    /\ pipeOut = <<[kind |-> "Error", payload |-> "transport error"]>>

\* every member step of the group has sent a terminal Value and returned
AllMembersSucceeded ==
    \A m \in 1..prompts :
        /\ memberPc[m] = "closed"
        /\ chans[m][Len(chans[m])].kind = "Value"

\* the number of indices of the sequence s that hold x
Count(s, x) == Cardinality({i \in DOMAIN s : s[i] = x})

\* C23: a fan-out group run over N inputs whose member steps all succeed
\* returns a collection that holds the output of each of the N members (as a
\* multiset: every output at least as often as members produced it). The
\* group has one place to return a collection, its output stream. Stated for
\* the runs in which every output was received before Run returned.
C23_GroupReturnsAllOutputs ==
    (/\ mcPc = "done"
     /\ ~mcStream
     /\ AllMembersSucceeded
     /\ \A m \in 1..prompts : fwd[m] = << >>)
        => \E i \in DOMAIN mcOutput :
              /\ mcOutput[i].kind = "Value"
              /\ \A m \in 1..prompts :
                    LET v == chans[m][1].payload
                    IN  Count(mcOutput[i].payload, v)
                          >= Cardinality({k \in 1..prompts : chans[k][1].payload = v})

\* C24: after a run of the fan-out group, its output stream carries one
\* terminal Result (the combined collection as a Value, or an Error) and is
\* closed, and the group's state tells that it has finished.
C24_GroupOutputCarriesResult ==
    mcPc = "done"
        => /\ Len(mcOutput) = 1
           /\ mcOutput[1].kind \in {"Value", "Error"}
           /\ mcCloses = 1
           /\ mcState \in {"StepFinished", "StepClosed"}

\* C25: when a member step of the fan-out group has terminated with an Error,
\* the shared scope ctx2 is cancelled, so that the sibling steps observe the
\* cancellation.
C25_MemberErrorCancelsScope ==
    (\E m \in 1..prompts :
        /\ memberPc[m] = "closed"
        /\ chans[m][Len(chans[m])].kind = "Error")
        => ctx2Done

\* C26: in the fan-out group a member Result that is an Error is recorded in
\* the collection as the empty string for that member, and does not end the
\* collecting of the other members' Results: the collecting goroutine stops
\* only when ctx2 is cancelled, which no member Error does.
C26_ErrorRecordedAsEmpty ==
    /\ Len(results) = Len(collected)
    /\ \A i \in DOMAIN collected :
          collected[i].kind = "Error" => results[i] = << >>
    /\ \A i \in DOMAIN collected :
          collected[i].kind \in {"Value", "Partial"} => results[i] = collected[i].payload
    /\ collPc = "returned" => ctx2Done

\* the Error of one member was recorded as "" and the output of another
\* member was recorded after it
C26_Witness ==
    /\ Len(results) >= 2
    /\ collected[1].kind = "Error"
    /\ results[1] = << >>
    /\ collected[2].kind = "Value"
    /\ results[2] = <<"a">>

\* C27: for a fan-out group over N inputs the number of entries collected is
\* N, one per input: never more, and not fewer once every member has
\* terminated and its Results are received, also when members stream Partial
\* results and after all member streams are closed.
C27_OneEntryPerInput ==
    /\ Len(results) <= prompts
    /\ (/\ mcPc /= "new"
        /\ \A m \in 1..prompts : memberPc[m] = "closed" /\ fwd[m] = << >>
        /\ ~ctx2Done)
          => Len(results) = prompts

EchoRunReachesClose ==
    \A r \in Runs :
        (echoPc[r] = "select")
            ~> (/\ echoClosed[r] = 1
                /\ echoStream[r] /= << >>
                /\ IsTerminal(Last(echoStream[r])))

C29_BlockedSendObservesCancel ==
    (/\ chatPc \in {"sendPartial", "sendLast"}
     /\ chatConsumerGone
     /\ chatCtxDone)
        ~> (chatPc = "done" /\ chatCloses = 1)


\* C30: RunIntoWriter drains the result stream until it is closed on every
\* path: when it has returned from its receive loop, by the end of the stream
\* or early (an Error Result, a failed write, a cancelled ctx), every Result
\* of the stream was received and so was the close.
C30_DrainsOnEveryPath ==
    (riwPc = "returned" /\ riwErr /= ErrNoLayer)
        => (riwPos = Len(riwStream) /\ riwSawClose)


\* the Results RunIntoWriter has received from the stream, in order
RiwReceived == SubSeq(riwStream, 1, riwPos)

C33_AtMostWorkersRunning ==
    trRunning <= workers


\* C34: once every member step of a fan-out group has emitted its terminal
\* Result and closed its stream, Run returns; the caller does not have to
\* cancel the ctx for it.
C34_RunReturnsAfterMembers ==
    (/\ mcPc = "wait"
     /\ \A m \in 1..prompts : memberPc[m] = "closed")
        ~> (mcPc = "done")


\* C35: the producer of an EchoStep run ends and closes its stream with no
\* consumer reading: a run sends at most one Result, the channel of capacity
\* one is empty when the run comes to its send, so the send is never waiting,
\* and a run that has ended has closed its stream.
C35_ProducerNeverWaitsForConsumer ==
    \A r \in Runs :
        /\ Len(echoStream[r]) <= 1
        /\ echoPc[r] \in {"sendErr", "sendValue"}
              => (echoC[r] = << >> /\ echoStream[r] = << >> /\ ENABLED EchoGoroutine(r))
        /\ echoPc[r] = "close" => ENABLED EchoClose(r)
        /\ echoPc[r] = "done" => echoClosed[r] = 1

\* a run has ended and closed its stream while its one Result is still in
\* the channel, received by nobody
C35_Witness ==
    \E r \in Runs :
        /\ echoPc[r] = "done"
        /\ echoClosed[r] = 1
        /\ Len(echoStream[r]) = 1
        /\ echoC[r] = echoStream[r]


\* C36: in every partial-completion event of an EchoStep run the completion
\* is the concatenation of the deltas of the partial events published so far
\* in the run, for texts with characters of more than one byte too.
C36_CompletionIsConcatOfDeltas ==
    \A r \in Runs :
        \A i \in DOMAIN echoEvents[r] :
            echoEvents[r][i].type = "partial"
                => echoEvents[r][i].completion
                     = Flatten([j \in 1..i |-> echoEvents[r][j].delta])


\* C37: Interrupt() on an EchoStep that has not been started has no effect:
\* the call changes nothing of the step and publishes no event, and a run
\* started after it that is not interrupted itself ends with the final event
\* and a terminal Value carrying the text.
C37_InterruptBeforeStartIsNoOp ==
    [][/\ (cancel = 0 /\ ~interruptedIdle /\ interruptedIdle')
            => UNCHANGED <<cancel, nStarts, echoPc, msgText, idx, ctxDone, echoC,
                           echoClosed, echoStream, echoEvents, startErr,
                           interruptedAt, subs, missed, handed>>
       /\ \A r \in Runs :
              (interruptedIdle' /\ interruptedAt'[r] = << >>)
                  => /\ ~ctxDone'[r]
                     /\ \A i \in DOMAIN echoEvents'[r] :
                           echoEvents'[r][i].type /= "interrupt"
                     /\ echoClosed'[r] >= 1
                           => /\ echoStream'[r] = <<NewValueResult(msgText'[r])>>
                              /\ Last(echoEvents'[r]).type = "final"]_vars

\* Interrupt was called before any Start, and the run started after it has
\* ended with its Value without being interrupted
C37_Witness ==
    \E r \in Runs :
        /\ interruptedIdle
        /\ interruptedAt[r] = << >>
        /\ msgText[r] /= << >>
        /\ echoClosed[r] = 1
        /\ echoStream[r] = <<NewValueResult(msgText[r])>>


\* C38: NewStepFromLayers returns exactly one of a step and an error: the
\* error of the update when updating the settings fails, else an error when
\* no chat engine is set, else an OpenAI step when the engine is an OpenAI
\* engine, else a Claude step when it is a Claude engine, else an error.
C38_ExactlyOneOfStepOrError ==
    sfPc = "returned" =>
        LET c == sfCall[1]
            engineSet == c.updateErr = "" /\ c.chat = "engine"
        IN  /\ (sfStep = Nil) /= (sfErr = "")
            /\ c.updateErr /= "" => sfErr = c.updateErr
            /\ (c.updateErr = "" /\ c.chat /= "engine") => sfErr = ErrNoChatEngine
            /\ (engineSet /\ ~c.isOpenAi /\ ~c.isClaude) => sfErr = ErrUnknownChatEngine
            /\ (engineSet /\ c.isOpenAi) => sfStep = <<"openai.ChatStep">>
            /\ (engineSet /\ ~c.isOpenAi /\ c.isClaude) => sfStep = <<"claude.Step">>

\* a call with an engine that both tests accept has returned the OpenAI step
\* and no error
C38_Witness ==
    /\ sfPc = "returned"
    /\ sfCall[1].updateErr = ""
    /\ sfCall[1].chat = "engine"
    /\ sfCall[1].isOpenAi
    /\ sfCall[1].isClaude
    /\ sfStep = <<"openai.ChatStep">>
    /\ sfErr = ""

=============================================================================
